---- MODULE Spec2Model ----
(***************************************************************************)
(* Verification model of todome (monaqa/todome): the document model of the *)
(* language server -- text index and position mapper, syntax tree, date    *)
(* diagnostics, completion -- and the server's document cache.             *)
(*                                                                         *)
(* Conventions.  Rows, columns and byte offsets are zero-based as in the   *)
(* Rust source; TLA+ sequences are one-based, so lines()[row] is written   *)
(* lines[row + 1].  A text is a sequence of characters; every character    *)
(* has a UTF-8 length in bytes and a UTF-16 length in code units.          *)
(* Option<T> and the outcome "the thread panicked" are records             *)
(* [tag, val] with val a sequence of length 0 or 1.                        *)
(***************************************************************************)
EXTENDS Integers, Sequences, FiniteSets, TLC

VARIABLES
    doc,        \* pure-function specifications: the Document under test
    res,        \* pure-function specifications: the last call and its result
    cache,      \* Inner::document_cache: uri -> <<>> (no entry) or <<Document>>
    tasks,      \* the handler calls in flight, in arrival order: [msg, pc, local]
    locked,     \* the tokio Mutex around Inner is held
    published,  \* client: uri -> <<>> or <<the diagnostics published last>>
    pubs,       \* client: number of publish_diagnostics notifications received
    response,   \* client: the last completion response
    local_today, \* Local::today(): the local calendar date (a day number)
    crashed,    \* a handler panicked
    latest,     \* history: uri -> the input of the registration that arrived last
                \* among those whose parse succeeds (0: none)
    nmsgs       \* history: number of messages that have arrived

pureVars == <<doc, res>>
serverVars == <<cache, tasks, locked, published, pubs, response, local_today, crashed,
                latest, nmsgs>>
vars == <<doc, res, cache, tasks, locked, published, pubs, response, local_today, crashed,
          latest, nmsgs>>

(***************************************************************************)
(* Bounds                                                                  *)
(***************************************************************************)
\* longest text, in characters, of the position-mapper specification
MaxTextLen == 3
\* server specification: messages per behaviour and handler calls in flight
\* at once
MaxMsgs == 3
MaxInflight == 2

(***************************************************************************)
(* Option / panic                                                          *)
(***************************************************************************)
\* Iterator::collect: the sequence with every element computed
collect(f) == f \o <<>>

Some(v) == [tag |-> "some", val |-> <<v>>]
None == [tag |-> "none", val |-> <<>>]
Panic == [tag |-> "panic", val |-> <<>>]
IsSome(o) == o.tag = "some"
Unwrap(o) == o.val[1]

(***************************************************************************)
(* Characters: UTF-8 and UTF-16 widths                                     *)
(***************************************************************************)
\* U+00E9 is two bytes, U+FFFD (the replacement character) three, U+1F600 four
\* bytes and a surrogate pair in UTF-16; everything else used here is ASCII.
len_utf8(c) ==
    CASE c = "U+00E9" -> 2
      [] c = "U+FFFD" -> 3
      [] c = "U+1F600" -> 4
      [] OTHER -> 1

\* char::encode_utf16: the code units of one character
encode_utf16_char(c) ==
    IF c = "U+1F600" THEN <<"D83D", "DE00">> ELSE <<c>>

IsHighSurrogate(u) == u = "D83D"
IsLowSurrogate(u) == u = "DE00"

RECURSIVE str_len(_)
\* str::len: the length of a text in bytes (summed by halves)
str_len(s) ==
    IF Len(s) = 0 THEN 0
    ELSE IF Len(s) = 1 THEN len_utf8(s[1])
    ELSE str_len(SubSeq(s, 1, Len(s) \div 2))
         + str_len(SubSeq(s, (Len(s) \div 2) + 1, Len(s)))

RECURSIVE encode_utf16(_)
\* str::encode_utf16: the code units of a text (joined by halves)
encode_utf16(s) ==
    IF Len(s) = 0 THEN <<>>
    ELSE IF Len(s) = 1 THEN encode_utf16_char(s[1])
    ELSE encode_utf16(SubSeq(s, 1, Len(s) \div 2))
         \o encode_utf16(SubSeq(s, (Len(s) \div 2) + 1, Len(s)))

\* String::from_utf16_lossy: a surrogate without its partner decodes to U+FFFD.
\* A low surrogate right after a high one is the second half of a pair.
from_utf16_lossy(u) ==
    LET second(i) == i > 1 /\ IsLowSurrogate(u[i]) /\ IsHighSurrogate(u[i - 1])
        first(i) == i < Len(u) /\ IsHighSurrogate(u[i]) /\ IsLowSurrogate(u[i + 1])
        decoded == [i \in 1..Len(u) |->
                       IF second(i) THEN ""
                       ELSE IF first(i) THEN "U+1F600"
                       ELSE IF IsHighSurrogate(u[i]) \/ IsLowSurrogate(u[i]) THEN "U+FFFD"
                       ELSE u[i]]
    IN SelectSeq(decoded, LAMBDA c : c /= "")

\* Iterator::take
take(s, n) == SubSeq(s, 1, IF n < Len(s) THEN n ELSE Len(s))

\* byte offset of the k-th character boundary (k characters precede it)
BoundaryOffset(s, k) == str_len(SubSeq(s, 1, k))

\* str::is_char_boundary
is_char_boundary(s, b) == \E k \in 0..Len(s) : BoundaryOffset(s, k) = b

\* number of characters before byte offset b (b a character boundary)
CharsBefore(s, b) == CHOOSE k \in 0..Len(s) : BoundaryOffset(s, k) = b

\* &s[a..b] panics unless a <= b and both are character boundaries of s
SliceOk(s, a, b) == a <= b /\ is_char_boundary(s, a) /\ is_char_boundary(s, b)
Slice(s, a, b) == SubSeq(s, CharsBefore(s, a) + 1, CharsBefore(s, b))

(***************************************************************************)
(* Text index: Document::parse, the table of line starts                   *)
(***************************************************************************)
\* a variant that records the offset of each '\n' instead of the offset after it
LineStarts_AtNewline(text) ==
    <<0>> \o SelectSeq([k \in 1..Len(text) |->
                           IF text[k] = "\n" THEN BoundaryOffset(text, k) - 1 ELSE 0 - 1],
                       LAMBDA p : p >= 0)

\* text.match_indices('\n').map(|(p, _)| p + 1), after the leading 0
LineStarts(text) ==
    <<0>> \o SelectSeq([k \in 1..Len(text) |->
                           IF text[k] = "\n" THEN BoundaryOffset(text, k) ELSE 0],
                       LAMBDA p : p > 0)

\* slice::binary_search on a strictly increasing table: Ok(i) or Err(insertion point)
binary_search(s, x) ==
    IF \E i \in 1..Len(s) : s[i] = x
    THEN [ok |-> TRUE, idx |-> (CHOOSE i \in 1..Len(s) : s[i] = x) - 1]
    ELSE [ok |-> FALSE, idx |-> Cardinality({i \in 1..Len(s) : s[i] < x})]

\* the row of a byte offset: match binary_search { Ok(i) => i, Err(i) => i - 1 }
RowOf(d, pos) ==
    LET r == binary_search(d.lines, pos) IN IF r.ok THEN r.idx ELSE r.idx - 1

(***************************************************************************)
(* Position mapper                                                         *)
(***************************************************************************)
\* a variant that takes the end of the text for an offset outside it
Point_try_from_bytes_RejectsEnd(pos, d) ==
    IF pos >= str_len(d.text) THEN None
    ELSE LET row == RowOf(d, pos)
         IN Some([row |-> row, column |-> pos - d.lines[row + 1]])

\* impl PosFrom<usize> for Point / Point::try_from_bytes
Point_try_from_bytes(pos, d) ==
    IF pos > str_len(d.text) THEN None
    ELSE LET row == RowOf(d, pos)
         IN Some([row |-> row, column |-> pos - d.lines[row + 1]])

\* impl PosFrom<Point> for usize / Point::try_into_bytes
Point_try_into_bytes(p, d) ==
    IF p.row >= Len(d.lines) THEN None
    ELSE LET idxline == d.lines[p.row + 1]
             max_idx == IF p.row + 1 < Len(d.lines) THEN d.lines[p.row + 2]
                        ELSE str_len(d.text)
         IN IF idxline + p.column < max_idx THEN Some(idxline + p.column) ELSE None

\* a variant that counts characters where the code counts UTF-16 code units
Position_try_from_bytes_CountsChars(pos, d) ==
    IF pos > str_len(d.text) THEN None
    ELSE LET row == RowOf(d, pos)
             bytes_startline == d.lines[row + 1]
         IN IF ~SliceOk(d.text, bytes_startline, pos) THEN Panic
            ELSE Some([line |-> row,
                       character |-> Len(Slice(d.text, bytes_startline, pos))])

\* impl PosFrom<usize> for Position / Position::try_from_bytes
Position_try_from_bytes(pos, d) ==
    IF pos > str_len(d.text) THEN None
    ELSE LET row == RowOf(d, pos)
             bytes_startline == d.lines[row + 1]
         IN IF ~SliceOk(d.text, bytes_startline, pos) THEN Panic
            ELSE Some([line |-> row,
                       character |-> Len(encode_utf16(Slice(d.text, bytes_startline, pos)))])

\* impl PosFrom<Position> for usize / Position::try_into_bytes
Position_try_into_bytes(p, d) ==
    IF p.line >= Len(d.lines) THEN None
    ELSE LET start == d.lines[p.line + 1]
             end == IF p.line + 1 < Len(d.lines) THEN d.lines[p.line + 2]
                    ELSE str_len(d.text)
             text == Slice(d.text, start, end)
             vec_utf16 == take(encode_utf16(text), p.character)
         IN Some(start + str_len(from_utf16_lossy(vec_utf16)))

(***************************************************************************)
(* Calendar dates: chrono::NaiveDate as a day number                       *)
(***************************************************************************)
IsLeap(y) == (y % 4 = 0 /\ y % 100 /= 0) \/ y % 400 = 0

DaysInMonth(y, m) ==
    CASE m \in {4, 6, 9, 11} -> 30
      [] m = 2 -> IF IsLeap(y) THEN 29 ELSE 28
      [] OTHER -> 31

RECURSIVE DaysBeforeMonth(_, _)
DaysBeforeMonth(y, m) ==
    IF m <= 1 THEN 0 ELSE DaysInMonth(y, m - 1) + DaysBeforeMonth(y, m - 1)

\* NaiveDate::num_days_from_ce
DayNumber(y, m, d) ==
    365 * (y - 1) + ((y - 1) \div 4) - ((y - 1) \div 100) + ((y - 1) \div 400)
        + DaysBeforeMonth(y, m) + d

Digits == <<"0", "1", "2", "3", "4", "5", "6", "7", "8", "9">>
IsDigit(c) == \E i \in 1..10 : Digits[i] = c
DigitVal(c) == (CHOOSE i \in 1..10 : Digits[i] = c) - 1

\* the ten characters YYYY-MM-DD of a (possibly impossible) calendar date
DateChars(y, m, d) ==
    LET dg(n) == Digits[(n % 10) + 1]
    IN <<dg(y \div 1000), dg(y \div 100), dg(y \div 10), dg(y), "-",
         dg(m \div 10), dg(m), "-", dg(d \div 10), dg(d)>>

\* NaiveDate::parse_from_str(s, "%Y-%m-%d") on a ten-character literal:
\* Some(day number), or None when the text is no date of the calendar
NaiveDate_parse_from_str(s) ==
    IF /\ Len(s) = 10
       /\ s[5] = "-" /\ s[8] = "-"
       /\ \A i \in {1, 2, 3, 4, 6, 7, 9, 10} : IsDigit(s[i])
    THEN LET y == 1000 * DigitVal(s[1]) + 100 * DigitVal(s[2])
                    + 10 * DigitVal(s[3]) + DigitVal(s[4])
             m == 10 * DigitVal(s[6]) + DigitVal(s[7])
             d == 10 * DigitVal(s[9]) + DigitVal(s[10])
         IN IF m \in 1..12 /\ d >= 1 /\ d <= DaysInMonth(y, m)
            THEN Some(DayNumber(y, m, d)) ELSE None
    ELSE None

(***************************************************************************)
(* The external parser's tree (tree_sitter::Node), taken as given:         *)
(* [kind, start, end, field, children]; field is the node's field name in  *)
(* its parent ("" if none).                                                *)
(***************************************************************************)
RawNode(kind, start, end, field, children) ==
    [kind |-> kind, start |-> start, end |-> end, field |-> field, children |-> children]

\* Node::is_error
is_error(node) == node.kind = "ERROR"

\* Node::child_by_field_name: the first child carrying the field name
child_by_field_name(node, name) ==
    LET I == {i \in 1..Len(node.children) : node.children[i].field = name}
    IN IF I = {} THEN None
       ELSE Some(node.children[CHOOSE i \in I : \A j \in I : i <= j])

\* the subsequence of s whose elements satisfy the index set I, in order
RECURSIVE SelectIdx(_, _, _)
SelectIdx(s, I, i) ==
    IF i > Len(s) THEN <<>>
    ELSE (IF i \in I THEN <<s[i]>> ELSE <<>>) \o SelectIdx(s, I, i + 1)

(***************************************************************************)
(* TextRange                                                               *)
(***************************************************************************)
\* TextRange::from_node: the node's byte range
TextRange_from_node(node) == [start |-> node.start, end |-> node.end]

\* TextRange::get_text: the text of the range
TextRange_get_text(range, content) == Slice(content, range.start, range.end)

\* TextRange::includes: containment, inclusive at both ends
TextRange_includes(range, cursor) == range.start <= cursor /\ cursor <= range.end

(***************************************************************************)
(* Syntax model: Cst and Rule                                              *)
(***************************************************************************)
NoDate == [start |-> None, target |-> None, deadline |-> None]

\* a Cst of the given rule with every payload field empty
CstOf(range, rule) ==
    [range |-> range, rule |-> rule, comments |-> <<>>, errors |-> <<>>,
     status |-> <<>>, meta |-> <<>>, text |-> <<>>, children |-> <<>>, tags |-> <<>>,
     kind |-> "", value |-> <<>>, key |-> <<>>, name |-> <<>>, content |-> <<>>,
     date |-> NoDate]

Ok(v) == [tag |-> "ok", val |-> <<v>>]
Err == [tag |-> "err", val |-> <<>>]
IsOk(r) == r.tag = "ok"

\* Iterator::try_collect over results produced in order: the first element that
\* is not Ok ends the iteration and is the outcome
try_collect(rs) ==
    LET bad == {i \in 1..Len(rs) : ~IsOk(rs[i])}
    IN IF bad = {} THEN Ok(collect([i \in 1..Len(rs) |-> rs[i].val[1]]))
       ELSE rs[CHOOSE i \in bad : \A j \in bad : i <= j]

\* Regex::captures of "open(.*)close" on a token: the characters between the
\* first open and the last close delimiter, None if the token has no such pair
Captures(substr, open, close) ==
    LET O == {i \in 1..Len(substr) : substr[i] = open}
        C == {i \in 1..Len(substr) : substr[i] = close}
    IN IF O = {} \/ C = {} THEN None
       ELSE LET o == CHOOSE i \in O : \A j \in O : i <= j
                c == CHOOSE i \in C : \A j \in C : j <= i
            IN IF o < c THEN Some(SubSeq(substr, o + 1, c - 1)) ELSE None

\* Regex::captures of "@(.*)" on a token
CapturesTag(substr) ==
    LET O == {i \in 1..Len(substr) : substr[i] = "@"}
    IN IF O = {} THEN None
       ELSE Some(SubSeq(substr, (CHOOSE i \in O : \A j \in O : i <= j) + 1, Len(substr)))

\* the bound of a date node held by the child with the given field name:
\* absent, a calendar date, or a literal that is no calendar date
DateBound(node, content, name) ==
    LET c == child_by_field_name(node, name)
    IN IF ~IsSome(c) THEN Ok(None)
       ELSE LET v == NaiveDate_parse_from_str(
                          TextRange_get_text(TextRange_from_node(Unwrap(c)), content))
            IN IF IsSome(v) THEN Ok(v) ELSE Err

\* the first outcome, in evaluation order, that is not Ok; Ok(0) if all are
FirstFailure(rs) ==
    LET bad == {i \in 1..Len(rs) : ~IsOk(rs[i])}
    IN IF bad = {} THEN Ok(0) ELSE rs[CHOOSE i \in bad : \A j \in bad : i <= j]

StatusKindOf(kind) ==
    CASE kind = "status_todo" -> "Todo"
      [] kind = "status_doing" -> "Doing"
      [] kind = "status_done" -> "Done"
      [] kind = "status_cancel" -> "Cancelled"
      [] OTHER -> ""

KnownKinds == {"source_file", "task", "header", "status", "priority", "due",
               "keyval", "category", "text", "tag", "ERROR", "comment"}

RECURSIVE Cst_parse_node(_, _)
\* Cst::parse_node: Ok(cst), Err (a propagated failure) or a panic
Cst_parse_node(node, content) ==
    LET range == TextRange_from_node(node)
        substr == TextRange_get_text(range, content)
        kids == node.children
        parsed(ns) ==
            try_collect(collect([i \in 1..Len(ns) |-> Cst_parse_node(ns[i], content)]))
        \* Cst::collect_children
        collect_children(n) == parsed(n.children)
        \* Cst::child_by_field_name: Ok(<<>>), Ok(<<cst>>) or the child's failure
        field(name) ==
            LET c == child_by_field_name(node, name)
            IN IF ~IsSome(c) THEN Ok(<<>>)
               ELSE LET r == Cst_parse_node(Unwrap(c), content)
                    IN IF IsOk(r) THEN Ok(<<r.val[1]>>) ELSE r
        \* the children of the container node in the given field, [] if absent
        container(name) ==
            LET c == child_by_field_name(node, name)
            IN IF ~IsSome(c) THEN Ok(<<>>) ELSE collect_children(Unwrap(c))
        errors == parsed(SelectIdx(kids, {i \in 1..Len(kids) : is_error(kids[i])}, 1))
        comments ==
            parsed(SelectIdx(kids, {i \in 1..Len(kids) : kids[i].kind = "comment"}, 1))
        base(rule) == [CstOf(range, rule) EXCEPT !.comments = comments.val[1],
                                                 !.errors = errors.val[1]]
        rule ==
            CASE node.kind = "source_file" ->
                    LET children == collect_children(node)
                    IN IF ~IsOk(children) THEN children
                       ELSE Ok([base("source_file") EXCEPT !.children = children.val[1]])
              [] node.kind = "task" ->
                    LET status == field("status")
                        meta == container("meta")
                        text == field("text")
                        children == container("children")
                        missing == IF IsOk(text) /\ text.val[1] = <<>> THEN Err ELSE text
                        f == FirstFailure(<<status, meta, missing, children>>)
                    IN IF ~IsOk(f) THEN f
                       ELSE Ok([base("task") EXCEPT !.status = status.val[1],
                                                    !.meta = meta.val[1],
                                                    !.text = text.val[1],
                                                    !.children = children.val[1]])
              [] node.kind = "header" ->
                    LET status == field("status")
                        meta == container("meta")
                        children == container("children")
                        f == FirstFailure(<<status, meta, children>>)
                    IN IF ~IsOk(f) THEN f
                       ELSE Ok([base("header") EXCEPT !.status = status.val[1],
                                                      !.meta = meta.val[1],
                                                      !.children = children.val[1]])
              [] node.kind = "status" ->
                    IF kids = <<>> THEN Err
                    ELSE IF StatusKindOf(kids[1].kind) = "" THEN Ok(base("ERROR"))
                    ELSE Ok([base("status") EXCEPT !.kind = StatusKindOf(kids[1].kind)])
              [] node.kind = "priority" ->
                    LET caps == Captures(substr, "(", ")")
                    IN IF ~IsSome(caps) THEN Panic
                       ELSE Ok([base("priority") EXCEPT !.value = Unwrap(caps)])
              [] node.kind = "due" ->
                    LET caps == Captures(substr, "(", ")")
                        start == DateBound(node, content, "start")
                        target == DateBound(node, content, "target")
                        deadline == DateBound(node, content, "deadline")
                        f == FirstFailure(<<start, target, deadline>>)
                    IN IF ~IsSome(caps) THEN Panic
                       ELSE IF ~IsOk(f) THEN f
                       ELSE Ok([base("due") EXCEPT !.date = [start |-> start.val[1],
                                                             target |-> target.val[1],
                                                             deadline |-> deadline.val[1]]])
              [] node.kind = "keyval" ->
                    LET caps == Captures(substr, "{", "}")
                        colon == IF IsSome(caps)
                                 THEN {i \in 1..Len(Unwrap(caps)) : Unwrap(caps)[i] = ":"}
                                 ELSE {}
                    IN IF colon = {} THEN Panic
                       ELSE LET c == CHOOSE i \in colon : \A j \in colon : j <= i
                            IN Ok([base("keyval") EXCEPT
                                      !.key = SubSeq(Unwrap(caps), 1, c - 1),
                                      !.value = SubSeq(Unwrap(caps), c + 1, Len(Unwrap(caps)))])
              [] node.kind = "category" ->
                    LET caps == Captures(substr, "[", "]")
                    IN IF ~IsSome(caps) THEN Panic
                       ELSE Ok([base("category") EXCEPT !.name = Unwrap(caps)])
              [] node.kind = "text" ->
                    LET tags == collect_children(node)
                    IN IF ~IsOk(tags) THEN tags
                       ELSE Ok([base("text") EXCEPT !.content = substr, !.tags = tags.val[1]])
              [] node.kind = "tag" ->
                    LET caps == CapturesTag(substr)
                    IN IF ~IsSome(caps) THEN Panic
                       ELSE Ok([base("tag") EXCEPT !.name = Unwrap(caps)])
              [] node.kind = "comment" -> Ok([base("comment") EXCEPT !.content = substr])
              [] OTHER -> Panic   \* unreachable!("rule name: {}", s)
    IN IF ~IsOk(errors) THEN errors
       ELSE IF ~IsOk(comments) THEN comments
       ELSE IF node.kind = "ERROR" THEN Ok(CstOf(range, "ERROR"))
       ELSE rule

\* Document::parse: tree is the parser's result for text, <<>> when it gives none
Document_new(text, tree, root) ==
    IF ~IsOk(root) THEN root
    ELSE Ok([text |-> text, lines |-> LineStarts(text), root |-> root.val[1],
             syntax |-> tree[1]])

Document_parse(text, tree) ==
    IF tree = <<>> THEN Err
    ELSE Document_new(text, tree, Cst_parse_node(tree[1], text))

(***************************************************************************)
(* Tree queries                                                            *)
(***************************************************************************)
\* Cst::get_children
get_children(cst, include_error, include_comment) ==
    LET v == CASE cst.rule = "source_file" -> cst.children
               [] cst.rule = "task" -> cst.status \o cst.meta \o cst.text \o cst.children
               [] cst.rule = "header" -> cst.status \o cst.meta \o cst.children
               [] cst.rule = "text" -> cst.tags
               [] OTHER -> <<>>
    IN v \o (IF include_error THEN cst.errors ELSE <<>>)
         \o (IF include_comment THEN cst.comments ELSE <<>>)

RECURSIVE Concat(_)
\* itertools concat: the concatenation of a sequence of sequences
Concat(ss) == IF ss = <<>> THEN <<>> ELSE Head(ss) \o Concat(Tail(ss))

Reverse(s) == collect([i \in 1..Len(s) |-> s[Len(s) + 1 - i]])

(***************************************************************************)
(* Inherited context                                                       *)
(***************************************************************************)
\* Context::default
Context_default ==
    [explicit_status |-> <<>>, explicit_priority |-> <<>>, explicit_keyval |-> <<>>,
     explicit_due |-> <<>>, categories |-> <<>>]

RECURSIVE PushMeta(_, _)
\* the loop over meta of Context::with_cst
PushMeta(context, meta) ==
    IF meta = <<>> THEN Ok(context)
    ELSE LET m == Head(meta)
             next ==
                CASE m.rule = "priority" ->
                        Ok([context EXCEPT !.explicit_priority = Append(@, m.value)])
                  [] m.rule = "due" ->
                        Ok([context EXCEPT !.explicit_due = Append(@, m.date)])
                  [] m.rule = "keyval" ->
                        Ok([context EXCEPT !.explicit_keyval =
                              SelectSeq(@, LAMBDA kv : kv[1] /= m.key)
                                  \o <<(<<m.key, m.value>>)>>])
                  [] m.rule = "category" ->
                        Ok([context EXCEPT !.categories = Append(@, m.name)])
                  [] OTHER -> Panic
         IN IF IsOk(next) THEN PushMeta(next.val[1], Tail(meta)) ELSE next

\* Context::with_cst
Context_with_cst(context, cst) ==
    CASE cst.rule = "source_file" -> Ok(Context_default)
      [] cst.rule \in {"task", "header"} ->
            PushMeta(IF cst.status /= <<>>
                     THEN [context EXCEPT !.explicit_status = Append(@, cst.status[1].kind)]
                     ELSE context,
                     cst.meta)
      [] cst.rule \in {"ERROR", "comment"} -> Ok(context)
      [] OTHER -> Panic

\* the nested children search_task_aux descends into
NestedChildren(cst) ==
    IF cst.rule \in {"source_file", "header", "task"} THEN cst.children ELSE <<>>

RECURSIVE items_nested_aux(_, _)
items_nested_aux(cst, context) ==
    LET c == Context_with_cst(context, cst)
        ctx == IF IsOk(c) THEN c.val[1] ELSE context
        kids == NestedChildren(cst)
    IN (IF cst.rule \in {"task", "header"} THEN <<[cst |-> cst, context |-> ctx]>> ELSE <<>>)
         \o Concat(collect([i \in 1..Len(kids) |-> items_nested_aux(kids[i], ctx)]))

\* SourceFile::items_nested: every Task and Header at any depth, in source
\* order, each with the context inherited on the way down to it
items_nested(root) == items_nested_aux(root, Context_default)

\* Item::scoped_statuses: the explicit statuses in scope, the nearest first
scoped_statuses(item) ==
    SelectSeq(Reverse(item.context.explicit_status), LAMBDA k : k /= "")

\* Status::is_valid
is_valid(kind) == kind \notin {"Done", "Cancelled"}

RECURSIVE children_recursive(_)
\* SyntaxNode::children_recursive: every node below the given one, at any depth
children_recursive(node) ==
    Concat(collect([i \in 1..Len(node.children) |->
                       <<node.children[i]>> \o children_recursive(node.children[i])]))

(***************************************************************************)
(* Diagnostics                                                             *)
(***************************************************************************)
SourceLabel == "todome"

\* impl PosFrom<(usize, usize)> for Range
Range_try_pos_from(range, d) ==
    LET start == Position_try_from_bytes(range.start, d)
        end == Position_try_from_bytes(range.end, d)
    IN IF start.tag = "panic" \/ end.tag = "panic" THEN Panic
       ELSE IF IsSome(start) /\ IsSome(end)
            THEN Some([start |-> Unwrap(start), end |-> Unwrap(end)])
            ELSE None

Diagnostic(range, severity, message, tags) ==
    [range |-> range, severity |-> severity, message |-> message, tags |-> tags,
     source |-> SourceLabel]

\* variant: only the first ERROR node is reported
get_syntax_error_FirstOnly(d) ==
    LET ns == SelectSeq(children_recursive(d.syntax), LAMBDA n : n.kind = "ERROR")
        r == IF ns = <<>> THEN None ELSE Range_try_pos_from(TextRange_from_node(ns[1]), d)
    IN IF r.tag = "panic" THEN Panic
       ELSE IF ~IsSome(r) THEN Ok(<<>>)
       ELSE Ok(<<Diagnostic(Unwrap(r), "Error", "Syntax error", <<>>)>>)

\* Document::get_syntax_error; a position conversion that panics panics the call
get_syntax_error(d) ==
    LET ns == SelectSeq(children_recursive(d.syntax), LAMBDA n : n.kind = "ERROR")
        rs == collect([i \in 1..Len(ns) |->
                         Range_try_pos_from(TextRange_from_node(ns[i]), d)])
        ok == SelectSeq(rs, IsSome)
    IN IF \E i \in 1..Len(rs) : rs[i].tag = "panic" THEN Panic
       ELSE Ok(collect([i \in 1..Len(ok) |->
                           Diagnostic(Unwrap(ok[i]), "Error", "Syntax error", <<>>)]))

\* the range of the task a task-level diagnostic is attached to: task.syntax().range()
TaskDiagRange(task) == task.range

\* Duration::days(7) of the "deadline is coming up" rule
DeadlineWindowDays == 7

\* a step of get_date_diags_for_task: a converted range and the diagnostic
\* pushed on it; severity "" converts the range and pushes nothing
DiagStep(r, severity, message, tags) ==
    [r |-> r, severity |-> severity, message |-> message, tags |-> tags]

\* the diagnostic about the order of two bounds, on the range of the date
OrderingStep(drange, earlier, later, message) ==
    IF IsSome(earlier) /\ IsSome(later) /\ Unwrap(earlier) > Unwrap(later)
    THEN <<DiagStep(drange, "Error", message, <<>>)>>
    ELSE <<>>

\* variant: start against deadline is looked at only when there is a target
OrderingSteps_ThroughTarget(drange, date) ==
    OrderingStep(drange, date.start, date.target,
                 "start date must be earlier than target date.")
    \o OrderingStep(drange, date.target, date.deadline,
                    "target date must be earlier than deadline.")
    \o (IF IsSome(date.target)
        THEN OrderingStep(drange, date.start, date.deadline,
                          "start date must be earlier than deadline.")
        ELSE <<>>)

\* the three ordering rules: start/target, target/deadline, start/deadline
OrderingSteps(drange, date) ==
    OrderingStep(drange, date.start, date.target,
                 "start date must be earlier than target date.")
    \o OrderingStep(drange, date.target, date.deadline,
                    "target date must be earlier than deadline.")
    \o OrderingStep(drange, date.start, date.deadline,
                    "start date must be earlier than deadline.")

\* the start rule
StartSteps(trange, start, today) ==
    IF IsSome(start) /\ today < Unwrap(start)
    THEN <<DiagStep(trange, "Hint", "this task is not started yet.", <<"Unnecessary">>)>>
    ELSE <<>>

\* the target rule: the range is converted whenever there is a target
TargetSteps(trange, target, today) ==
    IF ~IsSome(target) THEN <<>>
    ELSE IF today > Unwrap(target)
         THEN <<DiagStep(trange, "Warning", "target date of this task is over.", <<>>)>>
    ELSE IF today = Unwrap(target)
         THEN <<DiagStep(trange, "Information", "this task is targeted today.", <<>>)>>
    ELSE <<DiagStep(trange, "", "", <<>>)>>

\* variant: the window ends the day before the deadline's eve
DeadlineSteps_ShortWindow(trange, deadline, today) ==
    IF ~IsSome(deadline) THEN <<>>
    ELSE IF today > Unwrap(deadline)
         THEN <<DiagStep(trange, "Error", "this task is OVERDUE!", <<>>)>>
    ELSE IF today = Unwrap(deadline)
         THEN <<DiagStep(trange, "Warning", "this task is due today.", <<>>)>>
    ELSE IF today > Unwrap(deadline) - DeadlineWindowDays
         THEN <<DiagStep(trange, "Information", "deadline is coming up.", <<>>)>>
    ELSE <<DiagStep(trange, "", "", <<>>)>>

\* the deadline rule: the first arm of the match that applies
DeadlineSteps(trange, deadline, today) ==
    IF ~IsSome(deadline) THEN <<>>
    ELSE IF today > Unwrap(deadline)
         THEN <<DiagStep(trange, "Error", "this task is OVERDUE!", <<>>)>>
    ELSE IF today = Unwrap(deadline)
         THEN <<DiagStep(trange, "Warning", "this task is due today.", <<>>)>>
    ELSE IF today >= Unwrap(deadline) - DeadlineWindowDays
         THEN <<DiagStep(trange, "Information", "deadline is coming up.", <<>>)>>
    ELSE <<DiagStep(trange, "", "", <<>>)>>

\* get_date_diags_for_task, the diagnostics in the order they are pushed, given
\* the converted range of the date (drange) and of the task (trange)
DateDiagSteps(drange, trange, date, today) ==
    OrderingSteps(drange, date)
    \o StartSteps(trange, date.start, today)
    \o TargetSteps(trange, date.target, today)
    \o DeadlineSteps(trange, date.deadline, today)

\* the .expect("failed to convert range") of every step, then the diagnostics
ExpectRanges(steps) ==
    IF \E i \in 1..Len(steps) : ~IsSome(steps[i].r) THEN Panic
    ELSE LET pushed == SelectSeq(steps, LAMBDA x : x.severity /= "")
         IN Ok(collect([i \in 1..Len(pushed) |->
                           Diagnostic(Unwrap(pushed[i].r), pushed[i].severity,
                                      pushed[i].message, pushed[i].tags)]))

\* Document::get_date_diags_for_task
get_date_diags_for_task(d, task, today) ==
    LET dates == SelectSeq(task.meta, LAMBDA m : m.rule = "due")
    IN IF dates = <<>> THEN Ok(<<>>)
       ELSE ExpectRanges(DateDiagSteps(Range_try_pos_from(dates[1].range, d),
                                       Range_try_pos_from(TaskDiagRange(task), d),
                                       dates[1].date, today))

\* variant: no item is filtered out
ItemPassesFilter_KeepsAll(item) == TRUE

\* variant: only Done ends the evaluation, Cancelled does not
ItemPassesFilter_CancelledPasses(item) ==
    LET ss == scoped_statuses(item)
    IN IF ss = <<>> THEN TRUE ELSE ss[1] /= "Done"

\* the filter of get_date_diagnostics: "status が valid のものだけ"
ItemPassesFilter(item) ==
    LET ss == scoped_statuses(item)
    IN IF ss = <<>> THEN TRUE ELSE is_valid(ss[1])

\* the diagnostics of the items, in order; a panic of one is a panic of all
FlatMapDiags(per) ==
    IF \E i \in 1..Len(per) : ~IsOk(per[i]) THEN Panic
    ELSE Ok(Concat(collect([i \in 1..Len(per) |-> per[i].val[1]])))

\* the date diagnostics of one item of items_nested
DateDiagsOfItem(d, item, today) ==
    IF item.cst.rule = "task" THEN get_date_diags_for_task(d, item.cst, today)
    ELSE Ok(<<>>)

\* the items get_date_diagnostics looks at
FilteredItems(d) == SelectSeq(items_nested(d.root), ItemPassesFilter)

\* Document::get_date_diagnostics
get_date_diagnostics(d, today) ==
    LET items == FilteredItems(d)
    IN FlatMapDiags(collect([i \in 1..Len(items) |-> DateDiagsOfItem(d, items[i], today)]))

\* Document::get_diagnostics, with today = Local::now().naive_local().date()
get_diagnostics(d, today) ==
    FlatMapDiags(<<get_syntax_error(d), get_date_diagnostics(d, today)>>)

(***************************************************************************)
(* Cursor resolution and completion                                        *)
(***************************************************************************)
RECURSIVE get_csts_on_cursor_RootFirst(_, _)
\* a variant that puts the node before the result of its child
get_csts_on_cursor_RootFirst(cst, cursor) ==
    IF ~TextRange_includes(cst.range, cursor) THEN <<>>
    ELSE LET kids == get_children(cst, TRUE, TRUE)
             I == {i \in 1..Len(kids) : TextRange_includes(kids[i].range, cursor)}
             v == IF I = {} THEN <<>>
                  ELSE get_csts_on_cursor_RootFirst(
                           kids[CHOOSE i \in I : \A j \in I : i <= j], cursor)
         IN <<cst>> \o v

RECURSIVE get_csts_on_cursor(_, _)
\* Cst::get_csts_on_cursor: the nodes containing the cursor, each pushed after
\* the result of the first child that contains it
get_csts_on_cursor(cst, cursor) ==
    IF ~TextRange_includes(cst.range, cursor) THEN <<>>
    ELSE LET kids == get_children(cst, TRUE, TRUE)
             I == {i \in 1..Len(kids) : TextRange_includes(kids[i].range, cursor)}
             v == IF I = {} THEN <<>>
                  ELSE get_csts_on_cursor(kids[CHOOSE i \in I : \A j \in I : i <= j], cursor)
         IN Append(v, cst)

\* the closures handed to Cst::search by the completion code: the node is of the
\* wanted rule and, where the closure applies, does not contain the excluded offset
search_predicate(predicate, cst) ==
    /\ cst.rule = predicate.rule
    /\ predicate.applies
    /\ ~TextRange_includes(cst.range, predicate.excluded)

RECURSIVE search_aux(_, _, _, _)
\* Cst::search_aux: the matches below the node, child by child, then the node
search_aux(cst, predicate, include_error, include_comment) ==
    LET kids == get_children(cst, include_error, include_comment)
        csts == Concat(collect([i \in 1..Len(kids) |->
                                   search_aux(kids[i], predicate, include_error,
                                              include_comment)]))
    IN IF search_predicate(predicate, cst) THEN Append(csts, cst) ELSE csts

\* Cst::search: search_aux, reversed
search(cst, predicate, include_error, include_comment) ==
    Reverse(search_aux(cst, predicate, include_error, include_comment))

\* str::rfind of an ASCII character: the byte index of its last occurrence
rfind(s, c) ==
    LET I == {i \in 1..Len(s) : s[i] = c}
    IN IF I = {} THEN None
       ELSE Some(BoundaryOffset(s, (CHOOSE i \in I : \A j \in I : j <= i) - 1))

RECURSIVE YearOf(_, _)
YearOf(n, y) == IF DayNumber(y + 1, 1, 1) > n THEN y ELSE YearOf(n, y + 1)

RECURSIVE MonthOf(_, _, _)
MonthOf(n, y, m) ==
    IF m = 12 \/ DayNumber(y, m + 1, 1) > n THEN m ELSE MonthOf(n, y, m + 1)

\* date.format("%Y-%m-%d")
NaiveDate_format(n) ==
    LET y == YearOf(n, (n \div 366) + 1)
        m == MonthOf(n, y, 1)
    IN DateChars(y, m, n - DayNumber(y, m, 1) + 1)

\* the replacement range shared by the category and date branches: from the
\* last `open` before the cursor on its line to the cursor, one character more
\* when `close` follows the cursor.  None: Point::try_from_bytes gave no row.
BracketRange(d, cursor, open, close, swallow) ==
    LET point == Point_try_from_bytes(cursor, d)
    IN IF ~IsSome(point) THEN None
       ELSE
       LET start_of_line == d.lines[Unwrap(point).row + 1]
           len == str_len(d.text)
       IN IF ~SliceOk(d.text, start_of_line, cursor) THEN Panic
          ELSE IF swallow /\ (cursor + 1 > len \/ ~SliceOk(d.text, cursor, cursor + 1))
               THEN Panic
          ELSE
          LET before_cursor == Slice(d.text, start_of_line, cursor)
              found == rfind(before_cursor, open)
              pos_open == IF IsSome(found) THEN Unwrap(found) ELSE str_len(before_cursor)
              pos_close == IF swallow /\ Slice(d.text, cursor, cursor + 1) = <<close>>
                           THEN 1 ELSE 0
              start == Position_try_from_bytes(start_of_line + pos_open, d)
              end == Position_try_from_bytes(cursor + pos_close, d)
          IN IF ~IsSome(start) \/ ~IsSome(end) THEN Panic
             ELSE Some([start |-> Unwrap(start), end |-> Unwrap(end)])

CompletionItem(new_text, range, detail) ==
    [label |-> new_text, range |-> range, new_text |-> new_text, detail |-> detail]

\* a completion result: the candidates in order (list) or, where the code
\* collects them through a HashSet, in no order (set)
Completions(list, set) == [tag |-> "ok", list |-> list, set |-> set]
NoCompletions == Completions(<<>>, {})
CompletionPanic == [tag |-> "panic", list |-> <<>>, set |-> {}]

\* Document::get_category_completions
get_category_completions(d, cursor) ==
    LET range == BracketRange(d, cursor, "[", "]", TRUE)
        found == search(d.root,
                        [rule |-> "category", applies |-> TRUE, excluded |-> cursor],
                        FALSE, FALSE)
        categories == {found[i].name : i \in 1..Len(found)}
    IN IF range.tag = "none" THEN NoCompletions
       ELSE IF range.tag = "panic" THEN CompletionPanic
       ELSE Completions(<<>>, {CompletionItem(<<"[">> \o n \o <<"]">>, Unwrap(range), "")
                                  : n \in categories})

\* variant: the tag under the cursor is offered like any other
get_tag_completions_OffersOwn(d, cursor) ==
    LET range == BracketRange(d, cursor, "@", "", FALSE)
        found == search(d.root,
                        [rule |-> "tag", applies |-> cursor > 0, excluded |-> 0 - 1],
                        FALSE, FALSE)
        tags == {found[i].name : i \in 1..Len(found)}
    IN IF range.tag = "none" THEN NoCompletions
       ELSE IF range.tag = "panic" THEN CompletionPanic
       ELSE Completions(<<>>, {CompletionItem(<<"@">> \o n, Unwrap(range), "") : n \in tags})

\* Document::get_tag_completions
get_tag_completions(d, cursor) ==
    LET range == BracketRange(d, cursor, "@", "", FALSE)
        found == search(d.root,
                        [rule |-> "tag", applies |-> cursor > 0, excluded |-> cursor - 1],
                        FALSE, FALSE)
        tags == {found[i].name : i \in 1..Len(found)}
    IN IF range.tag = "none" THEN NoCompletions
       ELSE IF range.tag = "panic" THEN CompletionPanic
       ELSE Completions(<<>>, {CompletionItem(<<"@">> \o n, Unwrap(range), "") : n \in tags})

\* Document::get_due_completion, with now = Local::today().naive_local()
get_due_completion(d, cursor, now) ==
    LET range == BracketRange(d, cursor, "(", ")", TRUE)
        candidates == <<(<<now, "today">>), (<<now + 1, "tomorrow">>),
                        (<<now + 2, "2 days later">>), (<<now + 7, "1 week later">>)>>
    IN IF range.tag = "none" THEN NoCompletions
       ELSE IF range.tag = "panic" THEN CompletionPanic
       ELSE Completions(collect([i \in 1..4 |->
                                    CompletionItem(<<"(">> \o NaiveDate_format(candidates[i][1])
                                                       \o <<")">>,
                                                   Unwrap(range), candidates[i][2])]), {})

\* variant: a trigger character is served before the node kind is looked at
get_completion_TriggerFirst(d, position, trigger, now) ==
    LET c == Position_try_into_bytes(position, d)
    IN IF ~IsSome(c) THEN NoCompletions
       ELSE
       LET cursor == Unwrap(c)
           csts == get_csts_on_cursor(d.root, cursor)
           rule == IF csts = <<>> THEN "" ELSE csts[1].rule
       IN IF trigger = "[" THEN get_category_completions(d, cursor)
          ELSE IF trigger = "(" THEN get_due_completion(d, cursor, now)
          ELSE IF trigger = "@" THEN get_tag_completions(d, cursor)
          ELSE IF rule \in {"text", "comment"} THEN NoCompletions
          ELSE IF rule = "category" THEN get_category_completions(d, cursor)
          ELSE IF rule \in {"due", "priority"} THEN get_due_completion(d, cursor, now)
          ELSE IF rule = "tag" THEN get_tag_completions(d, cursor)
          ELSE NoCompletions

\* Document::get_completion; trigger is "" when the request carries none
get_completion(d, position, trigger, now) ==
    LET c == Position_try_into_bytes(position, d)
    IN IF ~IsSome(c) THEN NoCompletions
       ELSE
       LET cursor == Unwrap(c)
           csts == get_csts_on_cursor(d.root, cursor)
           rule == IF csts = <<>> THEN "" ELSE csts[1].rule
       IN IF rule \in {"text", "comment"} THEN NoCompletions
          ELSE IF trigger = "[" \/ rule = "category" THEN get_category_completions(d, cursor)
          ELSE IF trigger = "(" \/ rule \in {"due", "priority"}
               THEN get_due_completion(d, cursor, now)
          ELSE IF trigger = "@" \/ rule = "tag" THEN get_tag_completions(d, cursor)
          ELSE NoCompletions

(***************************************************************************)
(* Documents and their parse trees.  The parser is an external             *)
(* collaborator; for a text written in the canonical one-item-per-line     *)
(* form its tree is the one below.  An item is described by                *)
(* [kind, status, date, category, label, tag, children]: kind "task" or    *)
(* "header", status "" or the kind of its status marker, date <<>> or      *)
(* <<[start, target, deadline]>> (each <<>> or the ten characters of the   *)
(* literal), category and tag <<>> or <<name>>, label the visible text.    *)
(***************************************************************************)
Item(kind, status, date, category, label, tag, children) ==
    [kind |-> kind, status |-> status, date |-> date, category |-> category,
     label |-> label, tag |-> tag, children |-> children]

Marker(status) ==
    CASE status = "status_todo" -> "+"
      [] status = "status_doing" -> "*"
      [] status = "status_done" -> "-"
      [] OTHER -> "/"

\* a written text is a sequence of parts: literal characters, or a piece, which
\* becomes a node spanning the parts it is made of
Lit(chars) == [lit |-> TRUE, chars |-> chars, kind |-> "", field |-> "", parts |-> <<>>]

Piece(kind, field, parts) ==
    [lit |-> FALSE, chars |-> <<>>, kind |-> kind, field |-> field, parts |-> parts]

Opt(cond, parts) == IF cond THEN parts ELSE <<>>

Tabs(depth) == [i \in 1..depth |-> "\t"]

\* a date entry "(start~target deadline!)"
DuePiece(dt) ==
    Piece("due", "",
          <<Lit(<<"(">>)>>
          \o Opt(dt.start /= <<>>, <<Piece("date", "start", <<Lit(dt.start[1])>>), Lit(<<"~">>)>>)
          \o Opt(dt.target /= <<>>, <<Piece("date", "target", <<Lit(dt.target[1])>>)>>)
          \o Opt(dt.target /= <<>> /\ dt.deadline /= <<>>, <<Lit(<<" ">>)>>)
          \o Opt(dt.deadline /= <<>>,
                 <<Piece("date", "deadline", <<Lit(dt.deadline[1])>>), Lit(<<"!">>)>>)
          \o <<Lit(<<")">>)>>)

StatusPiece(status) ==
    Piece("status", "status", <<Piece(status, "", <<Lit(<<Marker(status)>>)>>)>>)

MetaPiece(it) ==
    Piece("meta", "meta",
          Opt(it.date /= <<>>, <<DuePiece(it.date[1])>>)
          \o Opt(it.date /= <<>> /\ it.category /= <<>>, <<Lit(<<" ">>)>>)
          \o Opt(it.category /= <<>>,
                 <<Piece("category", "", <<Lit(<<"[">> \o it.category[1] \o <<"]">>)>>)>>))

BodyPiece(it) ==
    IF it.kind = "task"
    THEN Piece("text", "text",
               <<Lit(it.label)>>
               \o Opt(it.tag /= <<>>,
                      <<Lit(<<" ">>), Piece("tag", "", <<Lit(<<"@">> \o it.tag[1])>>)>>))
    ELSE Piece("comment", "", <<Lit(<<"#", " ">> \o it.label)>>)

RECURSIVE ItemPiece(_, _)
RECURSIVE SiblingParts(_, _)
\* an item at the given depth: marker, entries, body, then its children on the
\* lines below, one tab deeper
\* an item of kind "ERROR" is a line the parser cannot make an item of: its
\* label, as one ERROR node
ItemPiece(it, depth) ==
    IF it.kind = "ERROR" THEN Piece("ERROR", "", <<Lit(it.label)>>)
    ELSE
    Piece(it.kind, "",
          Opt(it.status /= "", <<StatusPiece(it.status), Lit(<<" ">>)>>)
          \o Opt(it.date /= <<>> \/ it.category /= <<>>, <<MetaPiece(it), Lit(<<" ">>)>>)
          \o <<BodyPiece(it)>>
          \o Opt(it.children /= <<>>,
                 <<Lit(<<"\n">> \o Tabs(depth + 1)),
                   Piece("children", "children", SiblingParts(it.children, depth + 1))>>))

\* sibling items, one per line
SiblingParts(items, depth) ==
    IF items = <<>> THEN <<>>
    ELSE <<ItemPiece(Head(items), depth)>>
         \o Opt(Tail(items) /= <<>>, <<Lit(<<"\n">> \o Tabs(depth))>>)
         \o SiblingParts(Tail(items), depth)

FileParts(items) == SiblingParts(items, 0) \o Opt(items /= <<>>, <<Lit(<<"\n">>)>>)

LayoutJoin(h, rest) ==
    [text |-> h.text \o rest.text, nodes |-> h.nodes \o rest.nodes, end |-> rest.end]

WrapNode(part, off, sub) ==
    [text |-> sub.text,
     nodes |-> <<RawNode(part.kind, off, sub.end, part.field, sub.nodes)>>,
     end |-> sub.end]

RECURSIVE Layout(_, _)
RECURSIVE LayoutHead(_, _)
RECURSIVE LayoutTail(_, _)
\* the text of a sequence of parts written from byte offset off, and the nodes
\* of its pieces: [text, nodes, end]
Layout(parts, off) ==
    IF parts = <<>> THEN [text |-> <<>>, nodes |-> <<>>, end |-> off]
    ELSE LayoutTail(LayoutHead(Head(parts), off), Tail(parts))

LayoutHead(part, off) ==
    IF part.lit
    THEN [text |-> part.chars, nodes |-> <<>>, end |-> off + str_len(part.chars)]
    ELSE WrapNode(part, off, Layout(part.parts, off))

LayoutTail(h, rest) == LayoutJoin(h, Layout(rest, h.end))

\* a text and the parser's tree for it: [text, tree], tree = <<root node>>
SourceFile(e) ==
    [text |-> e.text,
     tree |-> <<RawNode("source_file", 0, str_len(e.text), "", e.nodes)>>]

SourceOf(items) == SourceFile(Layout(FileParts(items), 0))

(***************************************************************************)
(* Document cache                                                          *)
(***************************************************************************)
\* DocumentCache::get
DocumentCache_get(c, key) == IF c[key] = <<>> THEN None ELSE Some(c[key][1])

\* variant: a failed parse drops the entry
register_or_update_DropsOnFailure(c, url, parsed) ==
    IF ~IsOk(parsed) THEN [cache |-> [c EXCEPT ![url] = <<>>], result |-> parsed]
    ELSE [cache |-> [c EXCEPT ![url] = <<parsed.val[1]>>], result |-> parsed]

\* variant: the new items are appended to the entry's items
register_or_update_Merges(c, url, parsed) ==
    IF ~IsOk(parsed) THEN [cache |-> c, result |-> parsed]
    ELSE [cache |-> [c EXCEPT ![url] =
                        IF c[url] = <<>> THEN <<parsed.val[1]>>
                        ELSE <<[parsed.val[1] EXCEPT !.root.children =
                                   c[url][1].root.children \o @]>>],
          result |-> parsed]

\* variant: the insert goes into a fresh map
register_or_update_ClearsOthers(c, url, parsed) ==
    IF ~IsOk(parsed) THEN [cache |-> c, result |-> parsed]
    ELSE [cache |-> [u \in DOMAIN c |-> IF u = url THEN <<parsed.val[1]>> ELSE <<>>],
          result |-> parsed]

\* DocumentCache::register_or_update, given the outcome of Document::parse(text):
\* the cache afterwards and the result
register_or_update(c, url, parsed) ==
    IF ~IsOk(parsed) THEN [cache |-> c, result |-> parsed]
    ELSE [cache |-> [c EXCEPT ![url] = <<parsed.val[1]>>], result |-> parsed]

(***************************************************************************)
(* Language server: messages, handlers, the lock                           *)
(***************************************************************************)
Uris == {"u1", "u2"}

D_2024_05_01 == DateChars(2024, 5, 1)
D_2024_02_30 == DateChars(2024, 2, 30)

\* the texts clients send, with the parser's tree for each:
\*   1  "+ (2024-05-01!) [w] a"    2  "b"
\*   3  "+ (2024-02-30!) c"  (no such day)
\*   4  a text for which the parser returns no tree
ServerInputs ==
    <<SourceOf(<<Item("task", "status_todo",
                      <<[start |-> <<>>, target |-> <<>>, deadline |-> <<D_2024_05_01>>]>>,
                      <<(<<"w">>)>>, <<"a">>, <<>>, <<>>)>>),
      SourceOf(<<Item("task", "", <<>>, <<>>, <<"b">>, <<>>, <<>>)>>),
      SourceOf(<<Item("task", "status_todo",
                      <<[start |-> <<>>, target |-> <<>>, deadline |-> <<D_2024_02_30>>]>>,
                      <<>>, <<"c">>, <<>>, <<>>)>>),
      [text |-> <<"x">>, tree |-> <<>>]>>

ParseSource(src) == Document_parse(src.text, src.tree)

\* Document::parse of each text
ParsedInputs == collect([k \in DOMAIN ServerInputs |-> ParseSource(ServerInputs[k])])

ParseInput(k) == ParsedInputs[k]

Msg(method, uri, input, position, trigger) ==
    [method |-> method, uri |-> uri, input |-> input, position |-> position,
     trigger |-> trigger]

NoPosition == [line |-> 0, character |-> 0]

\* input 0: a did_change whose content_changes is empty
Messages ==
    {Msg("did_open", "u1", k, NoPosition, "") : k \in {1, 3}}
    \cup {Msg("did_change", "u1", k, NoPosition, "") : k \in {0, 1, 2, 4}}
    \cup {Msg("did_open", "u2", 2, NoPosition, "")}
    \cup {Msg("did_save", u, 0, NoPosition, "") : u \in Uris}
    \cup {Msg("did_close", "u1", 0, NoPosition, "")}
    \cup {Msg("completion", "u1", 0, [line |-> 0, character |-> 17], t) : t \in {"", "["}}
    \cup {Msg("completion", "u1", 0, [line |-> 0, character |-> 1], "(")}

Registers(m) == m.method = "did_open" \/ (m.method = "did_change" /\ m.input /= 0)

\* the days the server runs through
Day0 == DayNumber(2024, 5, 1)
LastDay == DayNumber(2024, 5, 2)

NoResponse == [uri |-> "", kind |-> "", completions |-> NoCompletions]

InitServer ==
    /\ cache = [u \in Uris |-> <<>>]
    /\ tasks = <<>>
    /\ locked = FALSE
    /\ published = [u \in Uris |-> <<>>]
    /\ pubs = 0
    /\ response = NoResponse
    /\ local_today = Day0
    /\ crashed = FALSE
    /\ latest = [u \in Uris |-> 0]
    /\ nmsgs = 0

Init ==
    /\ doc = [text |-> <<>>, lines |-> <<0>>]
    /\ res = [op |-> "none", arg |-> <<>>, out |-> None]
    /\ InitServer

\* a message arrives and its handler is called: the call starts by waiting for
\* the lock, self.inner().lock().await
Arrive ==
    \E m \in Messages :
        /\ ~crashed
        /\ nmsgs < MaxMsgs
        /\ Len(tasks) < MaxInflight
        /\ tasks' = Append(tasks, [msg |-> m, pc |-> "waiting", local |-> Err])
        /\ nmsgs' = nmsgs + 1
        /\ latest' = IF Registers(m) /\ IsOk(ParseInput(m.input))
                     THEN [latest EXCEPT ![m.uri] = m.input] ELSE latest
        /\ UNCHANGED <<cache, locked, published, pubs, response, local_today, crashed>>
        /\ UNCHANGED pureVars

\* variant: the lock goes to any waiting call
Lock_AnyWaiter(i) ==
    /\ tasks[i].pc = "waiting"
    /\ ~locked
    /\ locked' = TRUE
    /\ tasks' = [tasks EXCEPT ![i].pc = "locked"]

\* variant: the lock is granted while it is held
Lock_WhileHeld(i) ==
    /\ tasks[i].pc = "waiting"
    /\ \A j \in 1..(i - 1) : tasks[j].pc /= "waiting"
    /\ locked' = TRUE
    /\ tasks' = [tasks EXCEPT ![i].pc = "locked"]

\* tokio::sync::Mutex::lock: granted when the mutex is free, to the call that
\* has waited longest
Lock(i) ==
    /\ tasks[i].pc = "waiting"
    /\ ~locked
    /\ \A j \in 1..(i - 1) : tasks[j].pc /= "waiting"
    /\ locked' = TRUE
    /\ tasks' = [tasks EXCEPT ![i].pc = "locked"]

\* the guard is dropped when the handler's future completes
Unlock(i) ==
    /\ tasks[i].pc = "done"
    /\ locked' = FALSE
    /\ tasks' = SelectIdx(tasks, (1..Len(tasks)) \ {i}, 1)

\* Document::parse(text) inside register_or_update
Parsed(i, parsed) ==
    IF parsed.tag = "panic"
    THEN crashed' = TRUE /\ UNCHANGED tasks
    ELSE /\ tasks' = [tasks EXCEPT ![i].pc = "parsed", ![i].local = parsed]
         /\ UNCHANGED crashed

RegisterParse(i) ==
    /\ tasks[i].pc = "locked"
    /\ Registers(tasks[i].msg)
    /\ Parsed(i, ParseInput(tasks[i].msg.input))
    /\ UNCHANGED <<cache, published, pubs>>

\* the rest of register_or_update: the early return on a failure, or the insert
RegisterInsert(i) ==
    LET r == register_or_update(cache, tasks[i].msg.uri, tasks[i].local)
    IN /\ tasks[i].pc = "parsed"
       /\ cache' = r.cache
       /\ tasks' = [tasks EXCEPT ![i].pc = IF IsOk(r.result) THEN "inserted" ELSE "done"]
       /\ UNCHANGED <<crashed, published, pubs>>

\* a variant that sends the diagnostics of an identifier only the first time
publish_diagnostics_OnlyFirst(i, diags) ==
    IF ~IsOk(diags)
    THEN crashed' = TRUE /\ UNCHANGED <<tasks, published, pubs>>
    ELSE /\ published' = IF published[tasks[i].msg.uri] = <<>>
                         THEN [published EXCEPT ![tasks[i].msg.uri] = <<diags.val[1]>>]
                         ELSE published
         /\ pubs' = pubs + 1
         /\ tasks' = [tasks EXCEPT ![i].pc = "done"]
         /\ UNCHANGED crashed

\* client.publish_diagnostics(url, document.get_diagnostics(), None).await
publish_diagnostics(i, diags) ==
    IF ~IsOk(diags)
    THEN crashed' = TRUE /\ UNCHANGED <<tasks, published, pubs>>
    ELSE /\ published' = [published EXCEPT ![tasks[i].msg.uri] = <<diags.val[1]>>]
         /\ pubs' = pubs + 1
         /\ tasks' = [tasks EXCEPT ![i].pc = "done"]
         /\ UNCHANGED crashed

Publish(i, d) == publish_diagnostics(i, get_diagnostics(d, local_today))

\* Ok(document) => publish, after register_or_update returned the cache's entry
RegisterPublish(i) ==
    /\ tasks[i].pc = "inserted"
    /\ Publish(i, cache[tasks[i].msg.uri][1])
    /\ UNCHANGED cache

\* Inner::did_open
did_open(i) ==
    /\ tasks[i].msg.method = "did_open"
    /\ (RegisterParse(i) \/ RegisterInsert(i) \/ RegisterPublish(i))
    /\ UNCHANGED <<locked, response>>

\* Inner::did_change
did_change(i) ==
    /\ tasks[i].msg.method = "did_change"
    /\ \/ RegisterParse(i) \/ RegisterInsert(i) \/ RegisterPublish(i)
       \/ /\ tasks[i].pc = "locked"
          /\ ~Registers(tasks[i].msg)
          /\ tasks' = [tasks EXCEPT ![i].pc = "done"]
          /\ UNCHANGED <<cache, crashed, published, pubs>>
    /\ UNCHANGED <<locked, response>>

\* Inner::did_save
did_save(i) ==
    LET document == DocumentCache_get(cache, tasks[i].msg.uri)
    IN /\ tasks[i].msg.method = "did_save"
       /\ tasks[i].pc = "locked"
       /\ IF IsSome(document) THEN Publish(i, Unwrap(document))
          ELSE /\ tasks' = [tasks EXCEPT ![i].pc = "done"]
               /\ UNCHANGED <<crashed, published, pubs>>
       /\ UNCHANGED <<cache, locked, response>>

\* Inner::did_close
did_close(i) ==
    /\ tasks[i].msg.method = "did_close"
    /\ tasks[i].pc = "locked"
    /\ tasks' = [tasks EXCEPT ![i].pc = "done"]
    /\ UNCHANGED <<cache, locked, published, pubs, response, crashed>>

\* the result of Inner::completion
\* variant: the document is unwrapped
completion_result_Unwraps(c, m, now) ==
    LET document == DocumentCache_get(c, m.uri)
    IN IF IsSome(document)
       THEN [uri |-> m.uri, kind |-> "array",
             completions |-> get_completion(Unwrap(document), m.position, m.trigger, now)]
       ELSE [uri |-> m.uri, kind |-> "panic", completions |-> CompletionPanic]

CompletionResponse(m, completions) ==
    [uri |-> m.uri,
     kind |-> IF completions.tag = "panic" THEN "panic" ELSE "array",
     completions |-> completions]

completion_result(c, m, now) ==
    LET document == DocumentCache_get(c, m.uri)
    IN IF IsSome(document)
       THEN CompletionResponse(m, get_completion(Unwrap(document), m.position,
                                                 m.trigger, now))
       ELSE [uri |-> m.uri, kind |-> "none", completions |-> NoCompletions]

\* Inner::completion
Respond(i, r) ==
    IF r.kind = "panic"
    THEN crashed' = TRUE /\ UNCHANGED <<tasks, response>>
    ELSE /\ response' = r
         /\ tasks' = [tasks EXCEPT ![i].pc = "done"]
         /\ UNCHANGED crashed

completion(i) ==
    /\ tasks[i].msg.method = "completion"
    /\ tasks[i].pc = "locked"
    /\ Respond(i, completion_result(cache, tasks[i].msg, local_today))
    /\ UNCHANGED <<cache, locked, published, pubs>>

\* midnight passes
DayPasses ==
    /\ ~crashed
    /\ local_today < LastDay
    /\ local_today' = local_today + 1
    /\ UNCHANGED <<cache, tasks, locked, published, pubs, response, crashed, latest, nmsgs>>
    /\ UNCHANGED pureVars

\* the handler calls in flight
Running(i) == ~crashed /\ i <= Len(tasks)

\* what no handler step changes
HandlerFrame == UNCHANGED <<local_today, latest, nmsgs>> /\ UNCHANGED pureVars

LockStep ==
    \E i \in 1..MaxInflight :
        /\ Running(i) /\ Lock(i)
        /\ UNCHANGED <<cache, published, pubs, response, crashed>> /\ HandlerFrame

UnlockStep ==
    \E i \in 1..MaxInflight :
        /\ Running(i) /\ Unlock(i)
        /\ UNCHANGED <<cache, published, pubs, response, crashed>> /\ HandlerFrame

DidOpen == \E i \in 1..MaxInflight : Running(i) /\ did_open(i) /\ HandlerFrame

DidChange == \E i \in 1..MaxInflight : Running(i) /\ did_change(i) /\ HandlerFrame

DidSave == \E i \in 1..MaxInflight : Running(i) /\ did_save(i) /\ HandlerFrame

DidClose == \E i \in 1..MaxInflight : Running(i) /\ did_close(i) /\ HandlerFrame

Completion == \E i \in 1..MaxInflight : Running(i) /\ completion(i) /\ HandlerFrame

Next ==
    \/ Arrive
    \/ DayPasses
    \/ LockStep
    \/ DidOpen
    \/ DidChange
    \/ DidSave
    \/ DidClose
    \/ Completion
    \/ UnlockStep

Spec == Init /\ [][Next]_vars

(***************************************************************************)
(* Properties of the server                                                *)
(***************************************************************************)
FailsToParse(m) == Registers(m) /\ ~IsOk(ParseInput(m.input))

TaskIds == 1..Len(tasks)

\* C3: while the handler of a did_open or did_change whose text fails to
\* parse (malformed date literal, or no tree from the parser) runs, the cache
\* keeps every entry as it was and no diagnostics are published.
C3_FailedRegisterLeavesCache ==
    [][(\E i \in TaskIds : tasks[i].pc /= "waiting" /\ FailsToParse(tasks[i].msg))
          => /\ cache' = cache
             /\ published' = published
             /\ pubs' = pubs]_vars

\* a failed registration has returned while the uri has a Document and
\* published diagnostics from before
C3_Witness ==
    \E i \in TaskIds :
        /\ tasks[i].pc = "done"
        /\ FailsToParse(tasks[i].msg)
        /\ cache[tasks[i].msg.uri] /= <<>>
        /\ published[tasks[i].msg.uri] /= <<>>

PendingRegister(u) ==
    \E i \in TaskIds :
        /\ Registers(tasks[i].msg) /\ tasks[i].msg.uri = u
        /\ IsOk(ParseInput(tasks[i].msg.input))
        /\ tasks[i].pc \in {"waiting", "locked", "parsed"}

\* C4: once every registration for a uri has reached the cache, the entry is
\* the Document of the text whose message arrived last (among those that
\* parse); arrival order decides, not the order the texts were written.
C4_LastWriterWins ==
    \A u \in Uris :
        ~PendingRegister(u)
            => cache[u] = IF latest[u] = 0 THEN <<>>
                          ELSE <<ParseInput(latest[u]).val[1]>>

\* the did_change of text 2 has replaced the Document of text 1, whose
\* diagnostics are still the published ones
C4_Witness ==
    \E i \in TaskIds :
        /\ tasks[i].pc = "inserted"
        /\ tasks[i].msg = Msg("did_change", "u1", 2, NoPosition, "")
        /\ cache["u1"] = <<ParseInput(2).val[1]>>
        /\ published["u1"] /= <<>>
        /\ published["u1"][1] /= <<>>

\* C5: at most one handler call is past the lock at any time, and the lock is
\* held exactly while one is: between a handler's parse and its insert no other
\* handler is anywhere but waiting.
C5_HandlersExclusive ==
    /\ \A i, j \in TaskIds :
           i /= j => (tasks[i].pc = "waiting" \/ tasks[j].pc = "waiting")
    /\ locked = (\E i \in TaskIds : tasks[i].pc /= "waiting")

\* one handler is between parse and insert while another waits for the lock
C5_Witness ==
    \E i, j \in TaskIds : tasks[i].pc = "parsed" /\ tasks[j].pc = "waiting"

\* C6: when did_close(uri) has been handled, the cache has no entry for uri.
C6_CloseRemovesEntry ==
    \A i \in TaskIds :
        (tasks[i].msg.method = "did_close" /\ tasks[i].pc = "done")
            => cache[tasks[i].msg.uri] = <<>>

C7Positions == {[line |-> 0, character |-> c] : c \in {1, 17}}
C7Triggers == {"", "[", "(", "@"}

\* C7: when the text being registered is the text of the uri's cached
\* Document, the insert leaves the diagnostics (for the same today) and the
\* completions (as sets) of the entry what they were.
C7_ReRegisterIdempotent ==
    [][\A i \in TaskIds :
          LET u == tasks[i].msg.uri
          IN (/\ tasks[i].pc = "parsed"
              /\ tasks'[i].pc = "inserted"
              /\ cache[u] /= <<>>
              /\ cache[u][1].text = ServerInputs[tasks[i].msg.input].text)
             => /\ get_diagnostics(cache'[u][1], local_today)
                    = get_diagnostics(cache[u][1], local_today)
                /\ \A pos \in C7Positions, t \in C7Triggers :
                       get_completion(cache'[u][1], pos, t, local_today)
                           = get_completion(cache[u][1], pos, t, local_today)]_vars

\* two messages have arrived, both registering text 1 for u1: the first has
\* published its diagnostics, the second has inserted
C7_Witness ==
    /\ nmsgs = 2
    /\ \E i \in TaskIds :
           /\ tasks[i].pc = "inserted"
           /\ tasks[i].msg.uri = "u1" /\ tasks[i].msg.input = 1
    /\ published["u1"] /= <<>>
    /\ published["u1"][1] /= <<>>
    /\ cache["u1"] = <<ParseInput(1).val[1]>>

\* C8: the cache changes only in the insert of a register_or_update whose
\* parse succeeded, and then only at the uri of that message; did_save,
\* completion, did_close and a did_change without content leave it alone.
C8_OnlyRegisterMutates ==
    [][cache' /= cache
          => \E i \in TaskIds :
                 /\ Registers(tasks[i].msg)
                 /\ tasks[i].pc = "parsed" /\ IsOk(tasks[i].local)
                 /\ tasks'[i].pc = "inserted"
                 /\ \A u \in Uris \ {tasks[i].msg.uri} : cache'[u] = cache[u]]_vars

\* u2 has just been registered while u1 holds a Document
C8_Witness ==
    /\ cache["u1"] /= <<>>
    /\ \E i \in TaskIds : tasks[i].pc = "inserted" /\ tasks[i].msg.uri = "u2"
    /\ cache["u2"] /= <<>>

\* C9: a completion request or a did_save for a uri without a cache entry
\* ends normally: the completion response is "no result", nothing is
\* published, the cache is unchanged and nothing panics.
C9_MissingDocumentIsNoError ==
    [][\A i \in TaskIds :
          (/\ tasks[i].pc = "locked"
           /\ tasks[i].msg.method \in {"completion", "did_save"}
           /\ cache[tasks[i].msg.uri] = <<>>
           /\ (tasks'[i].pc /= "locked" \/ crashed'))
          => /\ tasks'[i].pc = "done"
             /\ ~crashed'
             /\ cache' = cache
             /\ published' = published /\ pubs' = pubs
             /\ tasks[i].msg.method = "completion"
                    => response' = [uri |-> tasks[i].msg.uri, kind |-> "none",
                                    completions |-> NoCompletions]]_vars

\* the completion for u1 was answered "no result" and u1 was registered
\* afterwards
C9_Witness ==
    /\ response.kind = "none" /\ response.uri = "u1"
    /\ cache["u1"] /= <<>>
    /\ published["u1"] /= <<>>
    /\ ~crashed

(***************************************************************************)
(* Position-mapper specification: a text, and conversions applied to it    *)
(***************************************************************************)
PosChars == {"a", "\n", "U+00E9", "U+1F600"}

RECURSIVE TextsUpTo(_)
TextsUpTo(n) ==
    IF n = 0 THEN {<<>>}
    ELSE LET S == TextsUpTo(n - 1)
         IN S \cup {Append(t, c) : t \in {s \in S : Len(s) = n - 1}, c \in PosChars}

\* the Document of a text as far as the position mapper reads it: text and lines
TextIndex(text) == [text |-> text, lines |-> LineStarts(text)]

NoCall == [op |-> "none", arg |-> <<>>, out |-> None]

InitPos ==
    /\ doc \in {TextIndex(t) : t \in TextsUpTo(MaxTextLen)}
    /\ res = NoCall
    /\ InitServer

Rows == 0..(MaxTextLen + 1)
Cols == 0..(4 * MaxTextLen + 1)

ByteToPoint ==
    /\ res = NoCall
    /\ \E b \in 0..(str_len(doc.text) + 1) :
           /\ res' = [op |-> "byte_to_point", arg |-> <<b>>, out |-> Point_try_from_bytes(b, doc)]
           /\ UNCHANGED doc
           /\ UNCHANGED serverVars

PointToByte ==
    /\ res = NoCall
    /\ \E r \in Rows, c \in Cols :
           /\ res' = [op |-> "point_to_byte", arg |-> <<[row |-> r, column |-> c]>>,
                      out |-> Point_try_into_bytes([row |-> r, column |-> c], doc)]
           /\ UNCHANGED doc
           /\ UNCHANGED serverVars

ByteToPosition ==
    /\ res = NoCall
    /\ \E b \in 0..(str_len(doc.text) + 1) :
           /\ res' = [op |-> "byte_to_position", arg |-> <<b>>,
                      out |-> Position_try_from_bytes(b, doc)]
           /\ UNCHANGED doc
           /\ UNCHANGED serverVars

PositionToByte ==
    /\ res = NoCall
    /\ \E r \in Rows, c \in Cols :
           /\ res' = [op |-> "position_to_byte", arg |-> <<[line |-> r, character |-> c]>>,
                      out |-> Position_try_into_bytes([line |-> r, character |-> c], doc)]
           /\ UNCHANGED doc
           /\ UNCHANGED serverVars

NextPos == ByteToPoint \/ PointToByte \/ ByteToPosition \/ PositionToByte

SpecPos == InitPos /\ [][NextPos]_vars

\* the byte offsets the claims range over: 0..len(text), on character boundaries
ValidOffsets(d) == {b \in 0..str_len(d.text) : is_char_boundary(d.text, b)}

\* C1: for every text and every valid byte offset b (on a character boundary),
\* byte -> editor position -> byte returns exactly b.
C1_PositionRoundTrip ==
    \A b \in ValidOffsets(doc) :
        LET p == Position_try_from_bytes(b, doc)
        IN /\ IsSome(p)
           /\ Position_try_into_bytes(Unwrap(p), doc) = Some(b)

\* a text with a line break and a surrogate-pair character before the converted
\* offset: the row is not 0 and the UTF-16 column differs from the byte column
C1_Witness ==
    /\ res.op = "byte_to_position"
    /\ IsSome(res.out)
    /\ Unwrap(res.out).line > 0
    /\ Unwrap(res.out).character = 2
    /\ res.arg[1] - doc.lines[Unwrap(res.out).line + 1] = 4
    /\ Position_try_into_bytes(Unwrap(res.out), doc) = Some(res.arg[1])

\* C2: for every text and every byte offset b in [0, len(text)], the end of the
\* text and the offsets of line terminators included, byte -> point -> byte
\* returns b and not "no value".
C2_PointRoundTrip ==
    \A b \in 0..str_len(doc.text) :
        LET p == Point_try_from_bytes(b, doc)
        IN /\ IsSome(p)
           /\ Point_try_into_bytes(Unwrap(p), doc) = Some(b)

(***************************************************************************)
(* Diagnostics specification: get_diagnostics on nested documents, on      *)
(* several days                                                            *)
(***************************************************************************)
DiagStatuses == {"", "status_todo", "status_doing", "status_done", "status_cancel"}

\* the Date entries of the innermost task: a deadline of 2024-05-01, or a start
\* of 2024-05-01 with an earlier target
DiagDates ==
    {[start |-> <<>>, target |-> <<>>, deadline |-> <<D_2024_05_01>>],
     [start |-> <<D_2024_05_01>>, target |-> <<DateChars(2024, 4, 20)>>, deadline |-> <<>>]}

\* the days get_diagnostics is asked on: before the deadline window, its first
\* day, the deadline, the day after
DiagDays == {Day0 - DeadlineWindowDays - 1, Day0 - DeadlineWindowDays, Day0, Day0 + 1}

DiagLeaf(sl, dt) == Item("task", sl, <<dt>>, <<>>, <<"t">>, <<>>, <<>>)

\* a task under one ancestor, or under a header under an ancestor
DiagItems ==
    {<<Item(k, so, <<>>, <<>>, <<"o">>, <<>>, <<DiagLeaf(sl, dt)>>)>> :
        k \in {"header", "task"}, so \in DiagStatuses, sl \in DiagStatuses, dt \in DiagDates}
    \cup
    {<<Item(k, so, <<>>, <<>>, <<"o">>, <<>>,
            <<Item("header", sm, <<>>, <<>>, <<"m">>, <<>>, <<DiagLeaf(sl, dt)>>)>>)>> :
        k \in {"header", "task"}, so \in DiagStatuses, sm \in DiagStatuses,
        sl \in DiagStatuses, dt \in DiagDates}

\* the Documents of the texts that describe the given items
DocumentsOf(S) == {ParseSource(SourceOf(items)).val[1] : items \in S}

InitDiag ==
    /\ doc \in DocumentsOf(DiagItems)
    /\ res = NoCall
    /\ InitServer

GetDiagnostics ==
    \E t \in DiagDays :
        /\ res' = [op |-> "get_diagnostics", arg |-> <<t>>, out |-> get_diagnostics(doc, t)]
        /\ UNCHANGED doc
        /\ UNCHANGED serverVars

NextDiag == GetDiagnostics

SpecDiag == InitDiag /\ [][NextDiag]_vars

\* the tasks of the document, each with its inherited context
TaskItems(d) ==
    LET items == items_nested(d.root)
    IN {it \in {items[i] : i \in 1..Len(items)} : it.cst.rule = "task"}

\* the explicit statuses of the ancestors of an item, outermost first
AncestorStatuses(it) ==
    IF it.cst.status = <<>> THEN it.context.explicit_status
    ELSE SubSeq(it.context.explicit_status, 1, Len(it.context.explicit_status) - 1)

\* the nearest explicit status: the item's own, else the nearest ancestor's
NearestStatus(it) ==
    IF it.cst.status /= <<>> THEN it.cst.status[1].kind
    ELSE IF AncestorStatuses(it) = <<>> THEN ""
    ELSE AncestorStatuses(it)[Len(AncestorStatuses(it))]

\* the ranges a date diagnostic of the task is reported on
DateDiagRanges(d, task) ==
    {Range_try_pos_from(task.range, d)}
    \cup {Range_try_pos_from(task.meta[i].range, d) :
             i \in {j \in 1..Len(task.meta) : task.meta[j].rule = "due"}}

\* the date diagnostics of the task among the diagnostics returned
DateDiagsOf(d, task, diags) ==
    LET ranges == DateDiagRanges(d, task)
    IN {i \in 1..Len(diags) : Some(diags[i].range) \in ranges}

Returned == res.op = "get_diagnostics" /\ IsOk(res.out)

DueDiags(it) == get_date_diags_for_task(doc, it.cst, res.arg[1])

\* the case of one task: due are the diagnostics its Date entry gives on the
\* day, got those reported for it, nearest its nearest explicit status
ActionableIffValid(due, got, nearest) ==
    (IsOk(due) /\ due.val[1] /= <<>>) =>
        /\ (got /= {}) <=> (nearest \notin {"Done", "Cancelled"})
        /\ nearest = "" => got /= {}

\* C11: a task is actionable, i.e. the date diagnostics its Date entry gives on
\* the day are reported, exactly when its nearest explicit status (its own if
\* set, else the nearest ancestor's) is neither Done nor Cancelled; a task with
\* no explicit status on its path is actionable.
C11_ActionableIffNearestValid ==
    Returned =>
        \A it \in TaskItems(doc) :
            ActionableIffValid(DueDiags(it), DateDiagsOf(doc, it.cst, res.out.val[1]),
                               NearestStatus(it))

\* the day after the deadline of a Todo task below a Cancelled ancestor: the
\* task is reported; and the same day for a task without status below it: not
C11_Witness ==
    /\ Returned
    /\ res.arg[1] = Day0 + 1
    /\ \E it \in TaskItems(doc) :
           /\ it.cst.status /= <<>>
           /\ it.cst.status[1].kind = "Todo"
           /\ "Cancelled" \in {AncestorStatuses(it)[i] : i \in 1..Len(AncestorStatuses(it))}
           /\ DueDiags(it).val[1] /= <<>>
           /\ DateDiagsOf(doc, it.cst, res.out.val[1]) /= {}

(***************************************************************************)
(* Date rule specification: get_diagnostics on single tasks with every     *)
(* combination of bounds, and on documents with ERROR nodes                *)
(***************************************************************************)
\* a bound of the Date entry: absent, 2024-04-24 or 2024-05-01
RuleBounds == {<<>>, <<DateChars(2024, 4, 24)>>, <<D_2024_05_01>>}

RuleDates ==
    {[start |-> s, target |-> t, deadline |-> e] : s \in RuleBounds, t \in RuleBounds,
                                                   e \in RuleBounds}
        \ {[start |-> <<>>, target |-> <<>>, deadline |-> <<>>]}

\* a line the parser gives up on
RuleError == Item("ERROR", "", <<>>, <<>>, <<"(", "A">>, <<>>, <<>>)

RuleDeadline == [start |-> <<>>, target |-> <<>>, deadline |-> <<D_2024_05_01>>]

\* a bare task with a Date entry; a Doing task with Date, category, tag and a
\* sub-task; tasks with an ERROR node below them, with and without one before
RuleItems ==
    {<<Item("task", "", <<dt>>, <<>>, <<"t">>, <<>>, <<>>)>> : dt \in RuleDates}
    \cup
    {<<Item("task", "status_doing", <<dt>>, <<<<"w">>>>, <<"t">>, <<<<"h">>>>,
            <<Item("task", "", <<>>, <<>>, <<"c">>, <<>>, <<>>)>>)>> : dt \in RuleDates}
    \cup
    {pre \o <<Item("task", st, <<RuleDeadline>>, <<>>, <<"t">>, <<>>, <<RuleError>>)>> :
        pre \in {<<>>, <<RuleError>>},
        st \in {"", "status_todo", "status_done", "status_cancel"}}

\* the days asked on, around both bounds: 2024-04-23, 04-24, 04-30, 05-01, 05-02
RuleDays == {Day0 - DeadlineWindowDays - 1, Day0 - DeadlineWindowDays, Day0 - 1, Day0,
             Day0 + 1}

InitRules ==
    /\ doc \in DocumentsOf(RuleItems)
    /\ res = NoCall
    /\ InitServer

GetDiagnosticsOnDay ==
    \E t \in RuleDays :
        /\ res' = [op |-> "get_diagnostics", arg |-> <<t>>, out |-> get_diagnostics(doc, t)]
        /\ UNCHANGED doc
        /\ UNCHANGED serverVars

NextRules == GetDiagnosticsOnDay

SpecRules == InitRules /\ [][NextRules]_vars

\* the messages of the diagnostics attached to a task as a whole
TaskLevelMessages ==
    {"this task is not started yet.", "target date of this task is over.",
     "this task is targeted today.", "this task is OVERDUE!", "this task is due today.",
     "deadline is coming up."}

\* the messages of the diagnostics about the order of the bounds
OrderingMessages ==
    {"start date must be earlier than target date.",
     "target date must be earlier than deadline.",
     "start date must be earlier than deadline."}

\* the converted ranges of the Text children of the tasks of the document
TextRanges(d) ==
    {Range_try_pos_from(it.cst.text[1].range, d) : it \in TaskItems(d)}

\* C12: every task-level date diagnostic (not started yet, target over,
\* targeted today, OVERDUE, due today, deadline coming up) is ranged over the
\* Text child of its task, so never over status, meta entries or sub-items.
C12_TaskDiagOnText ==
    Returned =>
        \A i \in 1..Len(res.out.val[1]) :
            res.out.val[1][i].message \in TaskLevelMessages =>
                Some(res.out.val[1][i].range) \in TextRanges(doc)

\* the Date entries of a task
DueEntries(task) == SelectSeq(task.meta, LAMBDA m : m.rule = "due")

\* the actionable tasks that have a Date entry
DatedActionable(d) ==
    {it \in TaskItems(d) :
        DueEntries(it.cst) /= <<>> /\ NearestStatus(it) \notin {"Done", "Cancelled"}}

\* the diagnostics of the result that carry the message
WithMessage(diags, message) == {i \in 1..Len(diags) : diags[i].message = message}

\* an ordering message occurs once, as an Error on the Date node, when the two
\* bounds are present and out of order, and not at all otherwise
OrderingReported(diags, drange, earlier, later, message) ==
    LET got == WithMessage(diags, message)
    IN IF IsSome(earlier) /\ IsSome(later) /\ Unwrap(earlier) > Unwrap(later)
       THEN /\ Cardinality(got) = 1
            /\ \A i \in got : diags[i].severity = "Error" /\ Some(diags[i].range) = drange
       ELSE got = {}

\* C13: for an actionable task with a Date entry, each ordering violated among
\* the bounds present (start > target, target > deadline, start > deadline)
\* gives exactly one Error with its message on the Date node, and a pair that
\* is in order or has an absent bound gives none.
C13_OrderingOncePerViolation ==
    Returned =>
        \A it \in DatedActionable(doc) :
            LET due == DueEntries(it.cst)[1]
                drange == Range_try_pos_from(due.range, doc)
                diags == res.out.val[1]
            IN /\ OrderingReported(diags, drange, due.date.start, due.date.target,
                                   "start date must be earlier than target date.")
               /\ OrderingReported(diags, drange, due.date.target, due.date.deadline,
                                   "target date must be earlier than deadline.")
               /\ OrderingReported(diags, drange, due.date.start, due.date.deadline,
                                   "start date must be earlier than deadline.")

\* start 2024-05-01, deadline 2024-04-24, no target: the start/deadline message
\* once, and no other ordering message
C13_Witness ==
    /\ Returned
    /\ \E it \in DatedActionable(doc) :
           LET date == DueEntries(it.cst)[1].date
           IN /\ ~IsSome(date.target)
              /\ IsSome(date.start) /\ IsSome(date.deadline)
              /\ Unwrap(date.start) > Unwrap(date.deadline)
    /\ Cardinality(WithMessage(res.out.val[1],
                               "start date must be earlier than deadline.")) = 1
    /\ \A i \in 1..Len(res.out.val[1]) :
           res.out.val[1][i].message \in OrderingMessages =>
               res.out.val[1][i].message = "start date must be earlier than deadline."

\* the message occurs, once and with the severity, exactly when cond holds
ReportedIff(diags, message, severity, cond) ==
    LET got == WithMessage(diags, message)
    IN /\ (got /= {}) <=> cond
       /\ Cardinality(got) <= 1
       /\ \A i \in got : diags[i].severity = severity

DeadlineMessages ==
    {"this task is OVERDUE!", "this task is due today.", "deadline is coming up."}

\* the deadline diagnostics of a result, for a deadline d and the day today
DeadlineDecided(diags, d, today) ==
    /\ ReportedIff(diags, "this task is OVERDUE!", "Error", today > d)
    /\ ReportedIff(diags, "this task is due today.", "Warning", today = d)
    /\ ReportedIff(diags, "deadline is coming up.", "Information",
                   d - 7 <= today /\ today < d)
    /\ (\A i \in 1..Len(diags) : diags[i].message \notin DeadlineMessages) <=> today < d - 7
    /\ Cardinality({i \in 1..Len(diags) : diags[i].message \in DeadlineMessages}) <= 1

RECURSIVE NodesOf(_)
\* the nodes of the parser's tree from the given node down
NodesOf(node) ==
    {node} \cup UNION {NodesOf(node.children[i]) : i \in 1..Len(node.children)}

\* the ERROR nodes of the parser's tree of the document
ErrorNodes(d) == {n \in NodesOf(d.syntax) : n.kind = "ERROR"}

\* the "Syntax error" diagnostics of a result
SyntaxErrors(diags) == WithMessage(diags, "Syntax error")

\* C15: get_diagnostics holds exactly one Error "Syntax error", on the node's
\* own range and with the fixed source label, for every ERROR node of the
\* tree, whether the enclosing task is actionable or not; and none without
\* ERROR nodes.
C15_OneSyntaxErrorPerErrorNode ==
    Returned =>
        LET diags == res.out.val[1]
        IN /\ \A n \in ErrorNodes(doc) :
                 Cardinality({i \in SyntaxErrors(diags) :
                                 Some(diags[i].range)
                                     = Range_try_pos_from(TextRange_from_node(n), doc)}) = 1
           /\ Cardinality(SyntaxErrors(diags)) = Cardinality(ErrorNodes(doc))
           /\ \A i \in SyntaxErrors(diags) :
                 diags[i].severity = "Error" /\ diags[i].source = "todome"

\* an ERROR line before a Done task and another below it: two syntax errors,
\* and nothing else although the deadline has passed
C15_Witness ==
    /\ Returned
    /\ res.arg[1] = Day0 + 1
    /\ Cardinality(ErrorNodes(doc)) = 2
    /\ \E it \in TaskItems(doc) : NearestStatus(it) = "Done"
    /\ Len(res.out.val[1]) = 2
    /\ \A i \in 1..Len(res.out.val[1]) : res.out.val[1][i].message = "Syntax error"

(***************************************************************************)
(* Completion specification: one completion call on a document, through    *)
(* get_completion or on one of its three branches                          *)
(***************************************************************************)
\* "+ [work] a @home\n+ (2024-05-01!) [work] b @ho\n"
ComplTasks ==
    <<Item("task", "status_todo", <<>>, <<<<"w", "o", "r", "k">>>>, <<"a">>,
           <<<<"h", "o", "m", "e">>>>, <<>>),
      Item("task", "status_todo", <<RuleDeadline>>, <<<<"w", "o", "r", "k">>>>, <<"b">>,
           <<<<"h", "o">>>>, <<>>)>>

\* "[home] # h\n\t[work] a @t\n": a header with its comment, and a task below
ComplHeader ==
    <<Item("header", "", <<>>, <<<<"h", "o", "m", "e">>>>, <<"h">>, <<>>,
           <<Item("task", "", <<>>, <<<<"w", "o", "r", "k">>>>, <<"a">>, <<<<"t">>>>,
                  <<>>)>>)>>

\* "+ [work] a\n+ b [\n": the second line is one the parser gives up on
ComplTyping ==
    <<Item("task", "status_todo", <<>>, <<<<"w", "o", "r", "k">>>>, <<"a">>, <<>>, <<>>),
      Item("ERROR", "", <<>>, <<>>, <<"+", " ", "b", " ", "[">>, <<>>, <<>>)>>

ComplItems == {ComplTasks, ComplHeader, ComplTyping}

\* the longest line of the documents has fewer characters than this
ComplMaxCol == 30

\* the editor positions asked at: every line and one more, every column
ComplPositions(d) ==
    {[line |-> l, character |-> c] : l \in 0..Len(d.lines), c \in 0..ComplMaxCol}

\* the trigger characters of a request: none, the three of the server, another
ComplTriggers == {"", "[", "(", "@", "x"}

InitCompl ==
    /\ doc \in DocumentsOf(ComplItems)
    /\ res = NoCall
    /\ InitServer

\* Document::get_completion(params)
GetCompletion ==
    /\ res = NoCall
    /\ \E position \in ComplPositions(doc), trigger \in ComplTriggers :
           res' = [op |-> "get_completion", arg |-> <<position, trigger>>,
                   out |-> get_completion(doc, position, trigger, local_today)]
    /\ UNCHANGED doc
    /\ UNCHANGED serverVars

\* Document::get_category_completions(cursor)
CategoryCompletions ==
    /\ res = NoCall
    /\ \E cursor \in 0..str_len(doc.text) :
           res' = [op |-> "get_category_completions", arg |-> <<cursor>>,
                   out |-> get_category_completions(doc, cursor)]
    /\ UNCHANGED doc
    /\ UNCHANGED serverVars

\* Document::get_tag_completions(cursor)
TagCompletions ==
    /\ res = NoCall
    /\ \E cursor \in 0..str_len(doc.text) :
           res' = [op |-> "get_tag_completions", arg |-> <<cursor>>,
                   out |-> get_tag_completions(doc, cursor)]
    /\ UNCHANGED doc
    /\ UNCHANGED serverVars

\* Document::get_due_completion(cursor)
DueCompletion ==
    /\ res = NoCall
    /\ \E cursor \in 0..str_len(doc.text) :
           res' = [op |-> "get_due_completion", arg |-> <<cursor>>,
                   out |-> get_due_completion(doc, cursor, local_today)]
    /\ UNCHANGED doc
    /\ UNCHANGED serverVars

NextCompl == GetCompletion \/ CategoryCompletions \/ TagCompletions \/ DueCompletion

SpecCompl == InitCompl /\ [][NextCompl]_vars

\* The documents of this specification are ASCII: a byte offset is an index
\* into the text and a UTF-16 column is a byte column.
\* the start of the line the offset is on
LineStartOf(d, b) ==
    LET S == {d.lines[i] : i \in 1..Len(d.lines)}
    IN CHOOSE x \in S : x <= b /\ \A y \in S : y <= b => y <= x

\* the editor position of an offset
PositionOf(d, b) ==
    [line |-> Cardinality({i \in 1..Len(d.lines) : d.lines[i] <= b}) - 1,
     character |-> b - LineStartOf(d, b)]

\* the offsets of the character ch before the cursor on the cursor's line
OpenersBefore(d, cursor, ch) ==
    {k \in LineStartOf(d, cursor)..(cursor - 1) : d.text[k + 1] = ch}

\* the replacement range the spec describes: from the nearest opener before
\* the cursor to the cursor, one character later when the closer follows
StatedRange(d, cursor, open, close) ==
    LET K == OpenersBefore(d, cursor, open)
        follows == cursor < Len(d.text) /\ d.text[cursor + 1] = close
    IN [start |-> PositionOf(d, CHOOSE k \in K : \A j \in K : j <= k),
        end |-> PositionOf(d, IF follows THEN cursor + 1 ELSE cursor)]

\* the nodes of a kind in the parser's tree whose range does not contain b
NodesAwayFrom(d, kind, b) ==
    {n \in NodesOf(d.syntax) : n.kind = kind /\ ~(n.start <= b /\ b <= n.end)}

\* the candidates a result offers: its labels, each with its replacement
Offered(out) ==
    {[label |-> c.label, new_text |-> c.new_text, range |-> c.range] :
        c \in out.set \cup {out.list[i] : i \in 1..Len(out.list)}}

\* what the spec says of the Category branch at a cursor
CategoryBranchAsStated(d, cursor, out) ==
    LET names == {SubSeq(d.text, n.start + 2, n.end - 1) :
                     n \in NodesAwayFrom(d, "category", cursor)}
    IN /\ out.tag = "ok"
       /\ out.list = <<>>
       /\ {c.label : c \in out.set} = {<<"[">> \o n \o <<"]">> : n \in names}
       /\ Cardinality(out.set) = Cardinality(names)
       /\ \A c \in out.set :
             /\ c.new_text = c.label
             /\ OpenersBefore(d, cursor, "[") /= {} =>
                    c.range = StatedRange(d, cursor, "[", "]")

\* C16: in the Category branch, at every cursor offset from 0 to the end of
\* the text, completion returns exactly one candidate "[name]" per distinct
\* name among the Category nodes that do not contain the cursor, replacing
\* from the nearest '[' before the cursor on its line to the cursor (one
\* character later when ']' follows).
C16_CategoryBranchEverywhere ==
    res.op = "get_category_completions" =>
        CategoryBranchAsStated(doc, res.arg[1], res.out)

\* what the spec says of the Tag branch at a cursor
TagBranchAsStated(d, cursor, out) ==
    LET names == {SubSeq(d.text, n.start + 2, n.end) :
                     n \in NodesAwayFrom(d, "tag", cursor - 1)}
    IN /\ out.tag = "ok"
       /\ out.list = <<>>
       /\ {c.label : c \in out.set} = {<<"@">> \o n : n \in names}
       /\ Cardinality(out.set) = Cardinality(names)
       /\ \A c \in out.set :
             /\ c.new_text = c.label
             /\ OpenersBefore(d, cursor, "@") /= {} =>
                    c.range = StatedRange(d, cursor, "@", "")

\* the kind of the innermost node of the document at an offset, "" if none
InnermostRule(d, cursor) ==
    LET csts == get_csts_on_cursor(d.root, cursor)
    IN IF csts = <<>> THEN "" ELSE csts[1].rule

\* the offset of an editor position on a line of the document
OffsetOf(d, position) == Unwrap(Position_try_into_bytes(position, d))

StatedDueDates ==
    <<DateChars(2024, 5, 1), DateChars(2024, 5, 2), DateChars(2024, 5, 3),
      DateChars(2024, 5, 8)>>

\* what the spec says of the Date branch at a cursor, asked on 2024-05-01
DueBranchAsStated(d, cursor, out) ==
    /\ out.tag = "ok"
    /\ out.set = {}
    /\ Len(out.list) = Len(StatedDueDates)
    /\ \A i \in 1..Len(out.list) :
          /\ out.list[i].label = <<"(">> \o StatedDueDates[i] \o <<")">>
          /\ out.list[i].new_text = out.list[i].label
          /\ out.list[i].range = out.list[1].range
          /\ OpenersBefore(d, cursor, "(") /= {} =>
                 out.list[i].range = StatedRange(d, cursor, "(", ")")

\* C18: in the Date branch, at every cursor offset from 0 to the end of the
\* text, completion returns exactly four candidates in the order today, +1
\* day, +2 days, +7 days, each labelled and replaced by "(YYYY-MM-DD)", all
\* with one range from the nearest '(' before the cursor on its line to the
\* cursor (one character later when ')' follows).
C18_DueBranchEverywhere ==
    (res.op = "get_due_completion" /\ local_today = Day0) =>
        DueBranchAsStated(doc, res.arg[1], res.out)

\* the result of the branch a trigger character stands for
BranchOfTrigger(d, cursor, trigger, now) ==
    CASE trigger = "[" -> get_category_completions(d, cursor)
      [] trigger = "(" -> get_due_completion(d, cursor, now)
      [] trigger = "@" -> get_tag_completions(d, cursor)

\* the result of the branch a node kind stands for
BranchOfRule(d, cursor, rule, now) ==
    CASE rule = "category" -> get_category_completions(d, cursor)
      [] rule \in {"due", "priority"} -> get_due_completion(d, cursor, now)
      [] rule = "tag" -> get_tag_completions(d, cursor)
      [] OTHER -> NoCompletions

\* a get_completion call at a position that converts, on a node that is
\* neither Text nor Comment
Dispatched ==
    /\ res.op = "get_completion"
    /\ res.arg[1].line < Len(doc.lines)
    /\ InnermostRule(doc, OffsetOf(doc, res.arg[1])) \notin {"text", "comment"}

\* C19: where no node-kind exclusion applies, a trigger character '[', '(' or
\* '@' selects the Category, Date or Tag branch whatever the innermost node
\* under the cursor is, and the innermost node's kind selects the branch only
\* when the request has no trigger character.
C19_TriggerSelectsBranch ==
    Dispatched =>
        LET cursor == OffsetOf(doc, res.arg[1])
        IN /\ res.arg[2] \in {"[", "(", "@"} =>
                  res.out = BranchOfTrigger(doc, cursor, res.arg[2], local_today)
           /\ res.arg[2] = "" =>
                  res.out = BranchOfRule(doc, cursor, InnermostRule(doc, cursor),
                                         local_today)

\* the position of a get_completion call is on a line of the document
Converts == res.arg[1].line < Len(doc.lines)

\* C20: get_completion returns the empty list, whatever the trigger character,
\* when the innermost node at the cursor is a Text or a Comment, and when the
\* position does not convert to a byte offset; and it returns the empty list
\* in every context that has neither one of the trigger characters '[', '(',
\* '@' nor a Category, Date, Priority or Tag node under the cursor.
C20_EmptyOutsideCompletable ==
    res.op = "get_completion" =>
        /\ ~Converts => res.out = NoCompletions
        /\ (Converts /\ InnermostRule(doc, OffsetOf(doc, res.arg[1])) \in {"text", "comment"})
               => res.out = NoCompletions
        /\ (/\ Converts
            /\ res.arg[2] \notin {"[", "(", "@"}
            /\ InnermostRule(doc, OffsetOf(doc, res.arg[1]))
                   \notin {"category", "due", "priority", "tag"})
               => res.out = NoCompletions

\* trigger '[' with the cursor in the label of a task, while the document has
\* categories to offer: nothing is returned
C20_Witness ==
    /\ res.op = "get_completion"
    /\ res.arg[2] = "["
    /\ Converts
    /\ InnermostRule(doc, OffsetOf(doc, res.arg[1])) = "text"
    /\ OffsetOf(doc, res.arg[1]) < Len(doc.text)
    /\ \E n \in NodesOf(doc.syntax) : n.kind = "category"
    /\ res.out = NoCompletions

(***************************************************************************)
(* Position mapper: positions outside the document                         *)
(***************************************************************************)
\* the line of a row as Position::try_into_bytes slices it, terminator included
LineOf(d, row) ==
    Slice(d.text, d.lines[row + 1],
          IF row + 1 < Len(d.lines) THEN d.lines[row + 2] ELSE str_len(d.text))

\* an editor position outside the document: no such row, or a column past the
\* UTF-16 code units of the row's line
OutsideDocument(d, p) ==
    \/ p.line >= Len(d.lines)
    \/ p.character > Len(encode_utf16(LineOf(d, p.line)))

\* C21: editor_position_to_byte returns "no value" for every editor position
\* outside the document: a row that is not smaller than the number of lines,
\* or a UTF-16 column greater than the number of code units of the row's line.
C21_OutsideIsNoValue ==
    res.op = "position_to_byte" =>
        (OutsideDocument(doc, res.arg[1]) => res.out = None)

(***************************************************************************)
(* Tree specification: one call on the syntax model of a document --       *)
(* Document::parse of a text with its tree, or a query on the root         *)
(***************************************************************************)
\* Cst::get_csts_on_range: of the nodes on the start of the range, those whose
\* range is the given one
get_csts_on_range(cst, range) ==
    SelectSeq(get_csts_on_cursor(cst, range.start), LAMBDA c : c.range = range)

\* "+ a @t\n\t- b @u\n\t+ c\n": a task with two tasks below it
TreeNested ==
    <<Item("task", "status_todo", <<>>, <<>>, <<"a">>, <<<<"t">>>>,
           <<Item("task", "status_done", <<>>, <<>>, <<"b">>, <<<<"u">>>>, <<>>),
             Item("task", "status_todo", <<>>, <<>>, <<"c">>, <<>>, <<>>)>>)>>

\* "[w][x] # h\n": a header whose two categories touch, the first ending where
\* the second starts
TreeAdjacent ==
    SourceFile(Layout(
        <<Piece("header", "",
                <<Piece("meta", "meta",
                        <<Piece("category", "", <<Lit(<<"[", "w", "]">>)>>),
                          Piece("category", "", <<Lit(<<"[", "x", "]">>)>>)>>),
                  Lit(<<" ">>),
                  Piece("comment", "", <<Lit(<<"#", " ", "h">>)>>)>>),
          Lit(<<"\n">>)>>, 0))

\* "# m\n" and "+ a\n\t# m\n": a line held by a node of kind "memo", a kind
\* Cst::parse_node has no arm for, under the root and under a task
TreeMemo == <<Item("memo", "", <<>>, <<>>, <<"m">>, <<>>, <<>>)>>
TreeMemoBelow ==
    <<Item("task", "status_todo", <<>>, <<>>, <<"a">>, <<>>,
           <<Item("memo", "", <<>>, <<>>, <<"m">>, <<>>, <<>>)>>)>>

\* the texts of this specification with the parser's tree of each
TreeSources ==
    {SourceOf(items) : items \in {ComplTasks, ComplHeader, ComplTyping, TreeNested}}
        \cup {TreeAdjacent}
TreeMemoSources == {SourceOf(items) : items \in {TreeMemo, TreeMemoBelow}}

RECURSIVE CstNodes(_)
\* the nodes of a syntax model from the given one down, through children,
\* errors and comments
CstNodes(cst) ==
    LET kids == get_children(cst, TRUE, TRUE)
    IN {cst} \cup UNION {CstNodes(kids[i]) : i \in 1..Len(kids)}

\* the rules the predicates of a search ask for
TreeRules == {"task", "header", "status", "category", "text", "tag", "ERROR", "comment"}

\* |cst| cst.rule == rule
RuleIs(rule) == [rule |-> rule, applies |-> TRUE, excluded |-> 0 - 1]

InitTree ==
    /\ doc \in {ParseSource(src).val[1] : src \in TreeSources}
    /\ res = NoCall
    /\ InitServer

\* Document::parse(text)
Parse ==
    /\ res = NoCall
    /\ \E src \in TreeSources \cup TreeMemoSources :
           res' = [op |-> "parse", arg |-> <<src>>, out |-> ParseSource(src)]
    /\ UNCHANGED doc
    /\ UNCHANGED serverVars

\* root.get_csts_on_cursor(cursor)
GetCstsOnCursor ==
    /\ res = NoCall
    /\ \E cursor \in 0..(str_len(doc.text) + 1) :
           res' = [op |-> "get_csts_on_cursor", arg |-> <<cursor>>,
                   out |-> get_csts_on_cursor(doc.root, cursor)]
    /\ UNCHANGED doc
    /\ UNCHANGED serverVars

\* root.get_csts_on_range(range), the range that of a node of the tree
GetCstsOnRange ==
    /\ res = NoCall
    /\ \E n \in CstNodes(doc.root) :
           res' = [op |-> "get_csts_on_range", arg |-> <<n>>,
                   out |-> get_csts_on_range(doc.root, n.range)]
    /\ UNCHANGED doc
    /\ UNCHANGED serverVars

\* root.search(predicate, include_error, include_comment)
Search ==
    /\ res = NoCall
    /\ \E rule \in TreeRules, include_error \in BOOLEAN, include_comment \in BOOLEAN :
           res' = [op |-> "search", arg |-> <<rule, include_error, include_comment>>,
                   out |-> search(doc.root, RuleIs(rule), include_error, include_comment)]
    /\ UNCHANGED doc
    /\ UNCHANGED serverVars

\* cst.get_children(include_error, include_comment) on a node of the tree
GetChildren ==
    /\ res = NoCall
    /\ \E n \in CstNodes(doc.root), include_error \in BOOLEAN, include_comment \in BOOLEAN :
           res' = [op |-> "get_children", arg |-> <<n, include_error, include_comment>>,
                   out |-> get_children(n, include_error, include_comment)]
    /\ UNCHANGED doc
    /\ UNCHANGED serverVars

NextTree == Parse \/ GetCstsOnCursor \/ GetCstsOnRange \/ Search \/ GetChildren

SpecTree == InitTree /\ [][NextTree]_vars

RECURSIVE Visited(_)
\* the nodes of the parser's tree Cst::parse_node is applied to, from the given
\* one down: the children of a source_file or text node, the status and text
\* of an item, the nodes in its meta and children containers, ERROR and
\* comment children
Visited(node) ==
    LET kids == node.children
        inside(name) ==
            LET c == child_by_field_name(node, name)
            IN IF IsSome(c) THEN {k \in DOMAIN Unwrap(c).children : TRUE} ELSE {}
        below ==
            CASE node.kind \in {"source_file", "text"} -> {kids[i] : i \in DOMAIN kids}
              [] node.kind \in {"task", "header"} ->
                    {kids[i] : i \in {j \in DOMAIN kids : kids[j].field \in {"status", "text"}}}
                    \cup {Unwrap(child_by_field_name(node, "meta")).children[k] :
                             k \in inside("meta")}
                    \cup {Unwrap(child_by_field_name(node, "children")).children[k] :
                             k \in inside("children")}
              [] OTHER -> {}
        side == {kids[i] : i \in {j \in DOMAIN kids : kids[j].kind \in {"ERROR", "comment"}}}
    IN {node} \cup UNION {Visited(n) : n \in below \cup side}

\* the nodes given to Cst::parse_node whose kind is none of the grammar's
\* productions
UnknownNodes(src) == {n \in Visited(src.tree[1]) : n.kind \notin KnownKinds}

\* C22: Document::parse maps every parse node whose kind is not one of the
\* known grammar productions to an Error node and continues: it never aborts
\* on such a node, and the syntax model holds an Error node on its range.
C22_UnknownKindBecomesError ==
    res.op = "parse" =>
        /\ res.out.tag /= "panic"
        /\ IsOk(res.out) =>
               \A n \in UnknownNodes(res.arg[1]) :
                   \E c \in CstNodes(res.out.val[1].root) :
                       c.rule = "ERROR" /\ c.range = TextRange_from_node(n)

(***************************************************************************)
(* Position mapper: the row of a byte offset                               *)
(***************************************************************************)
\* the greatest row whose line starts at or before the offset
GreatestRow(d, b) ==
    CHOOSE r \in 0..(Len(d.lines) - 1) :
        /\ d.lines[r + 1] <= b
        /\ \A q \in 0..(Len(d.lines) - 1) : d.lines[q + 1] <= b => q <= r

\* C23: for every b in [0, len(text)], byte_to_point(b) returns
\* (r, b - line_starts[r]) where r is the greatest index with
\* line_starts[r] <= b, so the row never decreases as b increases; it returns
\* "no value" exactly when b > len(text).
C23_ByteToPointRow ==
    LET len == str_len(doc.text)
        at(b) == Point_try_from_bytes(b, doc)
    IN /\ \A b \in 0..len :
              at(b) = Some([row |-> GreatestRow(doc, b),
                            column |-> b - doc.lines[GreatestRow(doc, b) + 1]])
       /\ \A b \in 1..len : Unwrap(at(b - 1)).row <= Unwrap(at(b)).row
       /\ \A b \in (len + 1)..(len + 2) : at(b) = None

\* byte_to_point of the end of a text whose last line is not the first one and
\* is not empty: the row is the last row, the column the length of that line
C23_Witness ==
    /\ res.op = "byte_to_point"
    /\ res.arg[1] = str_len(doc.text)
    /\ IsSome(res.out)
    /\ Unwrap(res.out).row = Len(doc.lines) - 1
    /\ Unwrap(res.out).row > 0
    /\ Unwrap(res.out).column > 0

(***************************************************************************)
(* Text index: the table of line starts                                    *)
(***************************************************************************)
\* the byte offsets just after a '\n' of the text
AfterNewlines(text) == {BoundaryOffset(text, k) : k \in {j \in 1..Len(text) : text[j] = "\n"}}

\* C24: for every built Document, line_starts is strictly increasing, its
\* first element is 0, it has exactly 1 + (number of '\n' in the text)
\* elements, every later element is the offset just after a '\n', and every
\* element is at most len(text).
C24_LineStartsShape ==
    LET lines == doc.lines
    IN /\ lines[1] = 0
       /\ \A i \in 1..(Len(lines) - 1) : lines[i] < lines[i + 1]
       /\ Len(lines) = 1 + Cardinality({j \in 1..Len(doc.text) : doc.text[j] = "\n"})
       /\ \A i \in 2..Len(lines) : lines[i] \in AfterNewlines(doc.text)
       /\ \A i \in 1..Len(lines) : lines[i] <= str_len(doc.text)

\* a conversion on a text that starts with a line break and ends with one
\* after a wider character: three lines, the last one empty and starting at
\* the end of the text
C24_Witness ==
    /\ res.op /= "none"
    /\ Len(doc.text) >= 3
    /\ doc.text[1] = "\n"
    /\ doc.text[Len(doc.text)] = "\n"
    /\ str_len(doc.text) > Len(doc.text)
    /\ Len(doc.lines) = 3
    /\ doc.lines[3] = str_len(doc.text)

(***************************************************************************)
(* Cursor resolution: the containment path                                 *)
(***************************************************************************)
\* the first child of the node, errors and comments included, whose range
\* contains the offset: <<>> if there is none
FirstChildOn(cst, b) ==
    LET kids == get_children(cst, TRUE, TRUE)
        I == {i \in 1..Len(kids) : TextRange_includes(kids[i].range, b)}
    IN IF I = {} THEN <<>> ELSE <<kids[CHOOSE i \in I : \A j \in I : i <= j]>>

\* a containment path of the offset from the root down to the innermost node
PathFromRoot(root, b, path) ==
    /\ path /= <<>>
    /\ path[1] = root
    /\ \A i \in 1..Len(path) : TextRange_includes(path[i].range, b)
    /\ \A i \in 1..(Len(path) - 1) : FirstChildOn(path[i], b) = <<path[i + 1]>>
    /\ FirstChildOn(path[Len(path)], b) = <<>>

\* C25 as stated: nodes_on_cursor(b) on the root returns the empty sequence if
\* b is outside the root's range, and otherwise the containment path ordered
\* from the root (first element) to the innermost node (last element).
C25_PathRootFirst ==
    res.op = "get_csts_on_cursor" =>
        IF ~TextRange_includes(doc.root.range, res.arg[1]) THEN res.out = <<>>
        ELSE PathFromRoot(doc.root, res.arg[1], res.out)

\* C25 as amended: nodes_on_cursor(b) on the root returns the empty sequence
\* if b is outside the root's range, and otherwise the containment path
\* ordered from the innermost node (first element) to the root (last
\* element): every element's range contains b, each element is a child
\* (errors and comments included) of the element after it, and among several
\* children containing b the first in child order is the one descended into.
C25_PathInnermostFirst ==
    res.op = "get_csts_on_cursor" =>
        IF ~TextRange_includes(doc.root.range, res.arg[1]) THEN res.out = <<>>
        ELSE PathFromRoot(doc.root, res.arg[1], Reverse(res.out))

\* a cursor on the boundary of two touching categories of a header: the path
\* has three nodes, the first of the two categories first and the root last
C25_Witness ==
    /\ res.op = "get_csts_on_cursor"
    /\ Len(res.out) = 3
    /\ res.out[1].rule = "category"
    /\ res.out[1].range.end = res.arg[1]
    /\ \E c \in CstNodes(doc.root) : c.rule = "category" /\ c.range.start = res.arg[1]
    /\ res.out[2].rule = "header"
    /\ res.out[3] = doc.root

(***************************************************************************)
(* Search: the order of the result                                         *)
(***************************************************************************)
RECURSIVE CstNodesUnder(_, _, _)
\* the nodes from the given one down, through the children get_children
\* gives with the two flags
CstNodesUnder(cst, include_error, include_comment) ==
    LET kids == get_children(cst, include_error, include_comment)
    IN {cst} \cup UNION {CstNodesUnder(kids[i], include_error, include_comment) :
                            i \in 1..Len(kids)}

\* the result holds the elements in source order: an element that starts
\* earlier in the text comes earlier
InSourceOrder(out) ==
    \A i \in 1..Len(out), j \in 1..Len(out) :
        out[i].range.start < out[j].range.start => i < j

\* C26: search(predicate, include_errors, include_comments) returns every
\* node at any depth that satisfies the predicate, in source order: whenever
\* a returned node a starts earlier in the text than a returned node b, a
\* comes before b in the result, so earlier siblings precede later siblings.
C26_SearchInSourceOrder ==
    res.op = "search" =>
        /\ {res.out[i] : i \in 1..Len(res.out)}
               = {c \in CstNodesUnder(doc.root, res.arg[2], res.arg[3]) :
                     c.rule = res.arg[1]}
        /\ InSourceOrder(res.out)

(***************************************************************************)
(* Re-finding a node from the root by its range                            *)
(***************************************************************************)
\* C27: for every node n of the tree (reachable from the root through
\* children, errors and comments), nodes_on_range(n.range) called on the root
\* returns only nodes whose range equals n.range and the result contains n
\* itself, also when a sibling before n ends exactly where n starts.
C27_RangeFindsNode ==
    res.op = "get_csts_on_range" =>
        /\ \A i \in 1..Len(res.out) : res.out[i].range = res.arg[1].range
        /\ \E i \in 1..Len(res.out) : res.out[i] = res.arg[1]

(***************************************************************************)
(* Position mapper: editor position -> byte -> editor position             *)
(***************************************************************************)
\* the content of a row's line, the line terminator excluded
LineContent(d, row) == SelectSeq(LineOf(d, row), LAMBDA c : c /= "\n")

\* C28: for every editor position (row, c) with row in range and c at most
\* the number of UTF-16 code units of the row's line content (line terminator
\* excluded), editor_position_to_byte returns an offset that lies on a UTF-8
\* character boundary of the text, and byte_to_editor_position of that offset
\* returns (row, c) again; this includes a c that falls between the two code
\* units of a surrogate pair.
C28_EditorPositionRoundTrip ==
    (/\ res.op = "position_to_byte"
     /\ res.arg[1].line < Len(doc.lines)
     /\ res.arg[1].character <= Len(encode_utf16(LineContent(doc, res.arg[1].line))))
        => /\ IsSome(res.out)
           /\ is_char_boundary(doc.text, Unwrap(res.out))
           /\ Position_try_from_bytes(Unwrap(res.out), doc) = Some(res.arg[1])

(***************************************************************************)
(* Server: the published diagnostics and the cached Document               *)
(***************************************************************************)
\* the diagnostics of the Document cached for the identifier, on one of the
\* days the server has run through
DiagnosticsOfCached(u) ==
    {get_diagnostics(cache[u][1], t) : t \in Day0..local_today}

\* C29: after any sequence of did_open, did_change, did_save, did_close and
\* completion messages, whenever no handler is running, for every identifier
\* with a cache entry for which diagnostics have been published, the most
\* recently published diagnostics are those of the Document currently cached
\* for that identifier (on the day they were computed); a published set never
\* belongs to a text older than the cached one.
C29_PublishedAreOfCached ==
    (~locked /\ ~crashed) =>
        \A u \in Uris :
            (cache[u] /= <<>> /\ published[u] /= <<>>)
                => Ok(published[u][1]) \in DiagnosticsOfCached(u)

\* no handler runs and none waits, three publications have gone to the first
\* identifier, and what is published is the non-empty diagnostics of the
\* Document cached for it, the one of the text that arrived last
C29_Witness ==
    /\ ~locked /\ ~crashed
    /\ tasks = <<>>
    /\ pubs = 3
    /\ published["u2"] = <<>>
    /\ cache["u1"] = <<ParseInput(1).val[1]>>
    /\ latest["u1"] = 1
    /\ published["u1"] /= <<>>
    /\ published["u1"][1] /= <<>>
    /\ Ok(published["u1"][1]) \in DiagnosticsOfCached("u1")

(***************************************************************************)
(* Children and search: each node once                                     *)
(***************************************************************************)
\* no element of the sequence occurs in it twice
NoDuplicates(out) ==
    \A i \in 1..Len(out), j \in 1..Len(out) : out[i] = out[j] => i = j

\* the ERROR and comment nodes the given node keeps in its side-collections
SideNodes(cst) ==
    {cst.errors[i] : i \in 1..Len(cst.errors)}
        \cup {cst.comments[i] : i \in 1..Len(cst.comments)}

\* C30: for every tree and every combination of include_errors and
\* include_comments, search and children return each node at most once: an
\* ERROR or comment child of a SourceFile or Text node is not returned both
\* as a semantic child and again from the errors/comments side-collection,
\* and with both flags false no node of the side-collections is visited.
C30_EachNodeOnce ==
    /\ res.op = "search" => NoDuplicates(res.out)
    /\ res.op = "get_children" =>
           /\ NoDuplicates(res.out)
           /\ (~res.arg[2] /\ ~res.arg[3]) =>
                  \A i \in 1..Len(res.out) : res.out[i] \notin SideNodes(res.arg[1])
====
